---- MODULE Spec2Model ----
(***************************************************************************)
(* Stay-validity handlers of the chatbase repository (serverless HTTP      *)
(* handlers in front of the Cloudbeds getRatePlans endpoint).              *)
(*                                                                         *)
(* One handler invocation is modelled: the request, the handler variant    *)
(* that serves it, the upstream answer it receives at its await point, its *)
(* local minLos, the number of upstream calls it issued and its response.  *)
(*                                                                         *)
(* Encoding of JavaScript values                                           *)
(*   calendar dates   day n stands for the string "2025-10-(16+n)";        *)
(*                    NoDate is '' / undefined; BadCal is a string such as *)
(*                    "2025-13-01" that matches /^\d{4}-\d{2}-\d{2}/ but   *)
(*                    is no calendar date (it sorts after every day).      *)
(*   numbers          integers; NaN is a reserved integer that every       *)
(*                    comparison treats as JavaScript treats NaN.          *)
(*   record fields    [t |-> "undef" | "null" | "num", v |-> n].           *)
(***************************************************************************)
EXTENDS Integers, Sequences, FiniteSets, TLC

VARIABLES handler, env, req, pc, upstream, calls, minLos, resp, loop

vars == <<handler, env, req, pc, upstream, calls, minLos, resp, loop>>

(***************************************************************************)
(* Bounds of the model.                                                    *)
(***************************************************************************)
\* longest list of nightly records upstream returns
MaxLen == 2
\* latest calendar day that occurs (stays are at most MaxDay - 1 nights)
MaxDay == 3
\* in how many fields, at most, the records of one list depart from the unremarkable
MaxDepart == 2
\* how many rate plans upstream adds to its list
MaxPlans == 2
\* longest list of room types upstream returns
MaxTypes == 2

(***************************************************************************)
(* Values.                                                                 *)
(***************************************************************************)
NoDate == 0 - 1
BadCal == MaxDay + 1
Days == 1..MaxDay
NaN == 0 - (MaxDay + 100)

Undef == [t |-> "undef", v |-> 0]
Null == [t |-> "null", v |-> 0]
Num(n) == [t |-> "num", v |-> n]
\* the decimal string of the integer n
Str(n) == [t |-> "str", v |-> n]

\* JavaScript relational operators on numbers: false as soon as one side is NaN
JsLt(a, b) == a # NaN /\ b # NaN /\ a < b
JsLe(a, b) == a # NaN /\ b # NaN /\ a <= b
JsGe(a, b) == a # NaN /\ b # NaN /\ a >= b

(***************************************************************************)
(* Helpers of get-reservation.js ({valid, reason} variant); the link       *)
(* builders carry the same helpers.                                        *)
(***************************************************************************)
\* raw request value -> 'YYYY-MM-DD' or ''
normDate(v) ==
  CASE v.k = "absent" -> NoDate
    [] v.k = "ymd" -> v.d
    [] v.k = "iso" -> v.d
    [] v.k = "badcal" -> BadCal
    [] OTHER -> NoDate

toInt(v, d) == IF v.t \in {"num", "str"} THEN v.v ELSE d

toNum(v, d) == IF v.t \in {"num", "str"} THEN v.v ELSE d

diffDays(a, b) ==
  IF a = NoDate \/ b = NoDate THEN 0
  ELSE IF a = BadCal \/ b = BadCal THEN NaN
  ELSE b - a

\* addDays throws a RangeError (toISOString of an invalid Date) on BadCal or NaN
addDaysThrows(isoYmd, days) == isoYmd = BadCal \/ isoYmd = NoDate \/ days = NaN

addDays(isoYmd, days) == isoYmd + days


(***************************************************************************)
(* Nightly records, plans and upstream answers.                            *)
(***************************************************************************)
Rec(dt, ml, cta, ctd, ra, rt) ==
  [date |-> dt, minLos |-> ml, closedToArrival |-> cta,
   closedToDeparture |-> ctd, roomsAvailable |-> ra, rate |-> rt]

\* a null entry of roomRateDetailed: every d?.field is undefined
NullRec == Rec(NoDate, Undef, FALSE, FALSE, Undef, Undef)

\* ratePlanId, roomTypeId: "" when the plan carries none
Plan(isArr, ds) ==
  [rrdIsArray |-> isArr, details |-> ds, ratePlanId |-> "", roomTypeId |-> "",
   roomTypeID |-> "", roomTypeName |-> <<>>, rateID |-> "", roomRate |-> Undef]

\* kind: "netfail" fetch rejects; "nonjson" the body is no JSON (j = {});
\* "json" a JSON body with success (FALSE: success === false), data, plans
\* status: r.status; message: the body's message ("" when it carries none);
\* roomTypes: the list data holds when the endpoint is getAvailableRoomTypes
Answer(kind, httpOk, success, dataIsArray, plans) ==
  [kind |-> kind, httpOk |-> httpOk, success |-> success,
   dataIsArray |-> dataIsArray, plans |-> plans,
   status |-> IF httpOk THEN 200 ELSE 500, message |-> "", roomTypes |-> <<>>]

\* a JSON body with an HTTP status and a message
HttpAnswer(status, success, message) ==
  [Answer("json", status \in 200..299, success, FALSE, <<>>)
     EXCEPT !.status = status, !.message = message]

NoAnswer == Answer("none", FALSE, FALSE, FALSE, <<>>)

OkAnswer(ds) == Answer("json", TRUE, TRUE, TRUE, <<Plan(TRUE, ds)>>)

(***************************************************************************)
(* Responses.                                                              *)
(***************************************************************************)
Reason(text) == [text |-> text, n |-> 0]

ReasonN(text, n) == [text |-> text, n |-> n]

\* fields: the keys of the JSON body; a key outside it keeps a default here
\* the url string of the link builders: its form ("ERROR: ...", one labeled
\* link, "Desired property unavailable: ... || Alternatives: ..."), the reason
\* it quotes and the links it lists
\* entries: the "slotN: reason" items of the multi-provider error string
Url(form, reason, links) ==
  [form |-> form, reason |-> reason, links |-> links, entries |-> <<>>]

NoUrl == Url("", Reason(""), <<>>)

\* missing: the names a "Missing required fields: ..." message lists; sent:
\* how many responses the invocation has sent, this one included
\* roomTypeMatched: null, or { id, name }
NoMatch == [null |-> TRUE, id |-> "", name |-> <<>>]

Response(status, fields, success, valid, reason, minNights) ==
  [status |-> status, fields |-> fields, success |-> success, valid |-> valid,
   reason |-> reason, minimumNightsRequiredToStay |-> minNights, url |-> NoUrl,
   totalPrice |-> 0, missing |-> <<>>, sent |-> 1, roomTypeMatched |-> NoMatch]

\* nothing sent yet
NoResponse == [Response(0, {}, FALSE, FALSE, Reason(""), 0) EXCEPT !.sent = 0]

\* res.status(...).json(r): one more response goes out on res
Send(r) == [r EXCEPT !.sent = resp.sent + 1]

\* the locals of a link builder's provider loop: the ordered providers, the
\* index of the provider being tried, what upstream answered to each attempt,
\* the result of each attempt, and the links collected
Loop(ordered, i, answers, results, links) ==
  [ordered |-> ordered, i |-> i, answers |-> answers, results |-> results,
   links |-> links]

NoLoop == Loop(<<>>, 0, <<>>, <<>>, <<>>)

(***************************************************************************)
(* get-reservation.js, second handler: returns ONLY { valid, reason }.     *)
(***************************************************************************)
\* a verdict whose reason is optional: left out when valid
VRokReasonOptional(valid, reason) ==
  Response(200, IF valid THEN {"valid"} ELSE {"valid", "reason"}, FALSE, valid,
           IF valid THEN Reason("") ELSE reason, 0)

\* function ok(obj) { return res.status(200).json(obj); } on { valid, reason }
VRok(valid, reason) == Response(200, {"valid", "reason"}, FALSE, valid, reason, 0)

VRMissingDates == "Fechas invalidas: faltan check-in o check-out (YYYY-MM-DD)."
VRBadOrder == "Fechas invalidas: el check-out debe ser posterior al check-in."
VRNoKey == "Configuracion del servidor faltante."
VRNoPlans == "No hay planes/tarifas disponibles para ese rango."
VRNoDetails == "No hay datos de tarifa para el rango solicitado."
VRIncomplete == "No hay datos de tarifa para todas las noches solicitadas."
VRMinStay == "La estadia minima es de N noches."
VRNoArrival == "No se permite llegada en la fecha seleccionada."
VRNoDeparture == "No se permite salida en la fecha seleccionada."
VRNoRooms == "No hay disponibilidad en una o mas noches."
VRNoRate == "No hay tarifa publicada para una o mas noches."
VRError == "Error al procesar la solicitud."

\* const plans = Array.isArray(j?.data) ? j.data : [];
PlansOf(a) == IF a.kind = "json" /\ a.dataIsArray THEN a.plans ELSE <<>>

\* !r.ok || j?.success === false
UpstreamFailed(a) == ~a.httpOk \/ (a.kind = "json" /\ ~a.success)

\* j?.message || fallbackText
MessageOr(a, fallbackText) == IF a.message # "" THEN a.message ELSE fallbackText

\* Array.isArray(plans[0]?.roomRateDetailed) ? plans[0].roomRateDetailed : []
DetailsOf(plans) == IF plans[1].rrdIsArray THEN plans[1].details ELSE <<>>

\* details.find(d => d?.date === day); Undefined when there is none
HasDate(details, day) == \E i \in 1..Len(details) : details[i].date = day

FindDate(details, day) ==
  IF day # NoDate /\ HasDate(details, day)
  THEN details[CHOOSE i \in 1..Len(details) :
                 /\ details[i].date = day
                 /\ \A j \in 1..(i - 1) : details[j].date # day]
  ELSE NullRec

SeqMax(s) == CHOOSE m \in {s[i] : i \in 1..Len(s)} : \A i \in 1..Len(s) : s[i] <= m

\* the slip of taking the maximum without preferring the arrival day
VRComputeMinLosAlwaysMax(details, arrival) ==
  LET all == [i \in 1..Len(details) |-> toInt(details[i].minLos, 0)]
      mins == SelectSeq(all, LAMBDA n : n > 0)
  IN IF Len(mins) > 0 THEN SeqMax(mins) ELSE 1

\* Compute minLos: prefer arrival-day; else max across details; default 1
VRComputeMinLos(details, arrival) ==
  IF toInt(arrival.minLos, 0) > 0 THEN toInt(arrival.minLos, 1)
  ELSE LET all == [i \in 1..Len(details) |-> toInt(details[i].minLos, 0)]
           mins == SelectSeq(all, LAMBDA n : n > 0)
       IN IF Len(mins) > 0 THEN SeqMax(mins) ELSE 1

\* details.filter(d => d?.date >= startDate && d?.date <= lastNight)
WindowDays(details, startDate, lastNight) ==
  SelectSeq(details, LAMBDA d : d.date # NoDate /\ d.date >= startDate /\ d.date <= lastNight)

\* windowDays.length < nights
VRIncompleteWindow(windowDays, nights) == JsLt(Len(windowDays), nights)

\* nights < minLos
VRBelowMinStay(nights, m) == JsLt(nights, m)

\* the slip of looking for the flag on any night
VRDepClosedAnyNight(details, endDate, lastNight) ==
  \E i \in 1..Len(details) : details[i].closedToDeparture

\* details.find(endDate)?.closedToDeparture || details.find(lastNight)?.closedToDeparture
VRDepClosed(details, endDate, lastNight) ==
  \/ FindDate(details, endDate).closedToDeparture
  \/ FindDate(details, lastNight).closedToDeparture

\* the slip of every() for some()
VRNoAvailabilityEveryNight(windowDays) ==
  \A i \in 1..Len(windowDays) : toInt(windowDays[i].roomsAvailable, 0) = 0

\* windowDays.some(d => toInt(d?.roomsAvailable, 0) === 0)
VRNoAvailability(windowDays) ==
  \E i \in 1..Len(windowDays) : toInt(windowDays[i].roomsAvailable, 0) = 0

\* the slip of defaulting an absent rate to 1
VRNoPublishedRateDefaultOne(windowDays) ==
  \E i \in 1..Len(windowDays) : toNum(windowDays[i].rate, 1) <= 0

\* windowDays.some(d => toNum(d?.rate, 0) <= 0)
VRNoPublishedRate(windowDays) ==
  \E i \in 1..Len(windowDays) : toNum(windowDays[i].rate, 0) <= 0

\* the rules on the nightly details (lines 138-180); m is the minLos computed
VRRules(details, startDate, endDate, nights, m) ==
  LET lastNight == addDays(endDate, 0 - 1)
      windowDays == WindowDays(details, startDate, lastNight)
      arrival == FindDate(details, startDate)
  IN IF addDaysThrows(endDate, 0 - 1) THEN VRok(FALSE, Reason(VRError))
     ELSE IF VRIncompleteWindow(windowDays, nights) THEN VRok(FALSE, Reason(VRIncomplete))
     ELSE IF VRBelowMinStay(nights, m) THEN VRok(FALSE, ReasonN(VRMinStay, m))
     ELSE IF arrival.closedToArrival THEN VRok(FALSE, Reason(VRNoArrival))
     ELSE IF VRDepClosed(details, endDate, lastNight) THEN VRok(FALSE, Reason(VRNoDeparture))
     ELSE IF VRNoAvailability(windowDays) THEN VRok(FALSE, Reason(VRNoRooms))
     ELSE IF VRNoPublishedRate(windowDays) THEN VRok(FALSE, Reason(VRNoRate))
     ELSE VRok(TRUE, Reason("OK"))

\* the minLos local after the upstream answer a (0: the let was not reached)
VRMinLos(a, startDate) ==
  IF a.kind = "netfail" \/ UpstreamFailed(a) \/ Len(PlansOf(a)) = 0 THEN 0
  ELSE IF Len(DetailsOf(PlansOf(a))) = 0 THEN 0
  ELSE VRComputeMinLos(DetailsOf(PlansOf(a)), FindDate(DetailsOf(PlansOf(a)), startDate))

\* the handler from the upstream answer to its response (lines 123-185)
VRAfterFetch(a, startDate, endDate, nights) ==
  IF a.kind = "netfail" THEN VRok(FALSE, Reason(VRError))
  ELSE IF UpstreamFailed(a) \/ Len(PlansOf(a)) = 0 THEN VRok(FALSE, Reason(VRNoPlans))
  ELSE IF Len(DetailsOf(PlansOf(a))) = 0 THEN VRok(FALSE, Reason(VRNoDetails))
  ELSE VRRules(DetailsOf(PlansOf(a)), startDate, endDate, nights, VRMinLos(a, startDate))

\* lines 89-121: parse, quick input checks, then the getRatePlans call
VRCheck ==
  /\ handler = "VR" /\ pc = "start"
  /\ LET startDate == normDate(req.startDate)
         endDate == normDate(req.endDate)
         nights == diffDays(startDate, endDate)
     IN IF startDate = NoDate \/ endDate = NoDate
        THEN /\ resp' = VRok(FALSE, Reason(VRMissingDates))
             /\ pc' = "done" /\ calls' = calls
        ELSE IF JsLe(nights, 0)
        THEN /\ resp' = VRok(FALSE, Reason(VRBadOrder))
             /\ pc' = "done" /\ calls' = calls
        ELSE IF ~env.apiKey[1]
        THEN /\ resp' = VRok(FALSE, Reason(VRNoKey))
             /\ pc' = "done" /\ calls' = calls
        ELSE /\ pc' = "await" /\ calls' = calls + 1 /\ resp' = resp
  /\ upstream' = IF pc' = "await" THEN OkAnswer(<<>>) ELSE upstream
  /\ UNCHANGED <<handler, env, req, minLos, loop>>

\* lines 123-185: the upstream answer arrives and the handler runs to its response
VRReceive ==
  /\ handler = "VR" /\ pc = "await"
  /\ LET startDate == normDate(req.startDate)
         endDate == normDate(req.endDate)
     IN /\ minLos' = VRMinLos(upstream, startDate)
        /\ resp' = VRAfterFetch(upstream, startDate, endDate, diffDays(startDate, endDate))
  /\ pc' = "done"
  /\ UNCHANGED <<handler, env, req, calls, upstream, loop>>

(***************************************************************************)
(* get-reservation.js, first handler: the simple verdict                   *)
(* { success, startDate, endDate, nights, valid,                           *)
(*   minimumNightsRequiredToStay }.                                        *)
(***************************************************************************)
\* res.status(code).json({ success: false, message })
SVFail(status, message) ==
  Response(status, {"success", "message"}, FALSE, FALSE, Reason(message), 0)

\* res.status(200).json({ success: true, startDate, endDate, nights, valid, ... })
SVVerdict(valid, m) ==
  Response(200, {"success", "startDate", "endDate", "nights", "valid",
                 "minimumNightsRequiredToStay"}, TRUE, valid, Reason(""), m)

\* a test for a number of any sign
JsNumeric(v) == v.t \in {"num", "str"}

\* arrival?.minLos > 0 : undefined and null are not above 0; a decimal string
\* is compared by its value
JsPositive(v) == v.t \in {"num", "str"} /\ v.v > 0

\* parseInt(d?.minLos || 0, 10)
SVParseMinLos(v) == IF v.t \in {"num", "str"} THEN v.v ELSE 0

\* minLos: prefer arrival day; else max; default 1 (lines 46-53)
SVMinLos(details, startDate) ==
  LET arrival == FindDate(details, startDate)
      all == [i \in 1..Len(details) |-> SVParseMinLos(details[i].minLos)]
      mins == SelectSeq(all, LAMBDA n : n > 0)
  IN IF JsPositive(arrival.minLos) THEN arrival.minLos.v
     ELSE IF Len(mins) > 0 THEN SeqMax(mins) ELSE 1

\* details.filter(d => d?.date >= startDate && d?.date < endDate)
SVRange(details, startDate, endDate) ==
  SelectSeq(details, LAMBDA d : d.date # NoDate /\ d.date >= startDate /\ d.date < endDate)

\* d?.roomsAvailable === 0
SVNoRooms(d) == d.roomsAvailable = Num(0)

\* Number(d?.rate) === 0 : Number(null) is 0, Number(undefined) is NaN
SVNoRate(d) == d.rate = Num(0) \/ d.rate = Null

\* range.some(...) (lines 57-62)
SVAnyBlocked(range, startDate, endDate) ==
  \E i \in 1..Len(range) :
    \/ SVNoRooms(range[i])
    \/ SVNoRate(range[i])
    \/ (range[i].date = startDate /\ range[i].closedToArrival)
    \/ (range[i].date = endDate /\ range[i].closedToDeparture)

\* the slip of > for >=
SVValidStrict(n, m, anyBlocked) == JsLt(m, n) /\ ~anyBlocked

\* const valid = nights >= minLos && !anyBlocked;
SVValid(n, m, anyBlocked) == JsGe(n, m) /\ ~anyBlocked

\* the handler from the upstream answer to its response (lines 31-75)
SVAfterFetch(a, startDate, endDate, n) ==
  IF a.kind = "netfail" THEN SVFail(500, "fetch failed")
  ELSE IF UpstreamFailed(a) THEN SVFail(502, MessageOr(a, "Cloudbeds error"))
  ELSE IF Len(PlansOf(a)) = 0 THEN SVVerdict(FALSE, 1)
  ELSE LET details == DetailsOf(PlansOf(a))
           m == SVMinLos(details, startDate)
           range == SVRange(details, startDate, endDate)
       IN SVVerdict(SVValid(n, m, SVAnyBlocked(range, startDate, endDate)), m)

\* lines 7-29: API key, parse, date checks, then the getRatePlans call
SVCheck ==
  /\ handler = "SV" /\ pc = "start"
  /\ LET startDate == normDate(req.startDate)
         endDate == normDate(req.endDate)
     IN IF ~env.apiKey[1]
        THEN /\ resp' = SVFail(500, "Missing CLOUDBEDS_API_KEY")
             /\ pc' = "done" /\ calls' = calls
        ELSE IF startDate = NoDate \/ endDate = NoDate
        THEN /\ resp' = SVFail(400, "startDate and endDate required (YYYY-MM-DD)")
             /\ pc' = "done" /\ calls' = calls
        ELSE IF JsLe(diffDays(startDate, endDate), 0)
        THEN /\ resp' = SVFail(200, "checkout must be after checkin")
             /\ pc' = "done" /\ calls' = calls
        ELSE /\ pc' = "await" /\ calls' = calls + 1 /\ resp' = resp
  /\ upstream' = IF pc' = "await" THEN OkAnswer(<<>>) ELSE upstream
  /\ UNCHANGED <<handler, env, req, minLos, loop>>

\* lines 31-75: the upstream answer arrives and the handler runs to its response
SVReceive ==
  /\ handler = "SV" /\ pc = "await"
  /\ LET startDate == normDate(req.startDate)
         endDate == normDate(req.endDate)
     IN /\ resp' = SVAfterFetch(upstream, startDate, endDate, diffDays(startDate, endDate))
        /\ minLos' = IF upstream.kind # "netfail" /\ ~UpstreamFailed(upstream)
                        /\ Len(PlansOf(upstream)) > 0
                     THEN SVMinLos(DetailsOf(PlansOf(upstream)), startDate) ELSE 0
  /\ pc' = "done"
  /\ UNCHANGED <<handler, env, req, calls, upstream, loop>>

(***************************************************************************)
(* api/get-reservation-summary.js and part_007 (api/get-rates-lite.js):    *)
(* the plan's roomRate and its minLos, the summary with the nightly        *)
(* records as well.                                                        *)
(***************************************************************************)
\* plans.find(p => toNum(p?.roomRate) > 0) || plans[0]
ChosenPlan(plans) ==
  IF \E i \in 1..Len(plans) : toNum(plans[i].roomRate, 0) > 0
  THEN plans[CHOOSE i \in 1..Len(plans) :
               /\ toNum(plans[i].roomRate, 0) > 0
               /\ \A j \in 1..(i - 1) : ~(toNum(plans[j].roomRate, 0) > 0)]
  ELSE plans[1]

\* minLos: arrival-day preferred; else max across range; default 1
\* (get-reservation-summary.js:57-73 on the mapped nightly, part_007:63-72)
SMMinLos(details, startDate) ==
  LET arrival == FindDate(details, startDate)
      all == [i \in 1..Len(details) |-> toInt(details[i].minLos, 0)]
      mins == SelectSeq(all, LAMBDA n : n > 0)
  IN IF toInt(arrival.minLos, 0) > 0 THEN toInt(arrival.minLos, 0)
     ELSE IF Len(mins) > 0 THEN SeqMax(mins) ELSE 1

\* res.status(200).json({ success: true, ..., roomRate, minLos, ... })
SMSummary(fields, m) == Response(200, fields, TRUE, FALSE, Reason(""), m)

\* the summary from the upstream answer on (get-reservation-summary.js:43-96)
SMAfterFetch(a, startDate) ==
  IF a.kind = "netfail" THEN SVFail(500, "fetch failed")
  ELSE IF UpstreamFailed(a) THEN SVFail(502, MessageOr(a, "Cloudbeds error"))
  ELSE IF Len(PlansOf(a)) = 0
  THEN SMSummary({"success", "startDate", "endDate", "nights", "adults", "children",
                  "roomRate", "minLos", "roomsAvailable", "nightly"}, 1)
  ELSE LET plan == ChosenPlan(PlansOf(a))
           nightly == IF plan.rrdIsArray THEN plan.details ELSE <<>>
       IN SMSummary({"success", "startDate", "endDate", "nights", "adults", "children",
                     "roomRate", "minLos", "rateID", "roomTypeID", "roomTypeName",
                     "roomsAvailable", "arrival", "departure", "nightly"},
                    SMMinLos(nightly, startDate))

\* get-reservation-summary.js:12-43: API key, dates, nights, then the call
SMCheck ==
  /\ handler = "SM" /\ pc = "start"
  /\ LET startDate == normDate(req.startDate)
         endDate == normDate(req.endDate)
     IN IF ~env.apiKey[1]
        THEN /\ resp' = SVFail(500, "Missing CLOUDBEDS_API_KEY")
             /\ pc' = "done" /\ UNCHANGED <<calls, upstream>>
        ELSE IF startDate = NoDate \/ endDate = NoDate
        THEN /\ resp' = SVFail(400, "startDate and endDate (YYYY-MM-DD) required")
             /\ pc' = "done" /\ UNCHANGED <<calls, upstream>>
        ELSE IF JsLe(diffDays(startDate, endDate), 0)
        THEN /\ resp' = SVFail(200, "checkout must be after checkin")
             /\ pc' = "done" /\ UNCHANGED <<calls, upstream>>
        ELSE /\ pc' = "await" /\ calls' = calls + 1 /\ resp' = resp
             /\ upstream' = OkAnswer(<<>>)
  /\ UNCHANGED <<handler, env, req, minLos, loop>>

SMReceive ==
  /\ handler = "SM" /\ pc = "await"
  /\ resp' = SMAfterFetch(upstream, normDate(req.startDate))
  /\ pc' = "done"
  /\ UNCHANGED <<handler, env, req, calls, upstream, minLos, loop>>

\* get-rates-lite from the upstream answer on (part_007:41-82)
RLAfterFetch(a, start) ==
  IF a.kind = "netfail" THEN SVFail(500, "fetch failed")
  ELSE IF UpstreamFailed(a) THEN SVFail(502, MessageOr(a, "Cloudbeds error"))
  ELSE IF Len(PlansOf(a)) = 0 THEN SMSummary({"success", "roomRate", "minLos"}, 1)
  ELSE LET chosen == ChosenPlan(PlansOf(a))
           details == IF chosen.rrdIsArray THEN chosen.details ELSE <<>>
       IN SMSummary({"success", "roomRate", "minLos"}, SMMinLos(details, start))

\* part_007:8-41: API key and dates (no check of their order), then the call
RLCheck ==
  /\ handler = "RL" /\ pc = "start"
  /\ IF ~env.apiKey[1]
     THEN /\ resp' = SVFail(500, "Missing CLOUDBEDS_API_KEY")
          /\ pc' = "done" /\ UNCHANGED <<calls, upstream>>
     ELSE IF normDate(req.startDate) = NoDate \/ normDate(req.endDate) = NoDate
     THEN /\ resp' = SVFail(400, "startDate/checkin and endDate/checkout are required (YYYY-MM-DD)")
          /\ pc' = "done" /\ UNCHANGED <<calls, upstream>>
     ELSE /\ pc' = "await" /\ calls' = calls + 1 /\ resp' = resp
          /\ upstream' = OkAnswer(<<>>)
  /\ UNCHANGED <<handler, env, req, minLos, loop>>

RLReceive ==
  /\ handler = "RL" /\ pc = "await"
  /\ resp' = RLAfterFetch(upstream, normDate(req.startDate))
  /\ pc' = "done"
  /\ UNCHANGED <<handler, env, req, calls, upstream, minLos, loop>>

(***************************************************************************)
(* part_003 (api/build-booking-link.js, desired-first): tries the desired  *)
(* property alone, then the others when fallback is on.                    *)
(* Always 200 with { success: true, url: "<message or links>" }.           *)
(***************************************************************************)
\* function ok(res, urlStr)
TPok(url) ==
  Send([Response(200, {"success", "url"}, TRUE, FALSE, Reason(""), 0) EXCEPT !.url = url])

Provider(slot, name, key, pid, base) ==
  [slot |-> slot, name |-> name, apiKey |-> key, propertyID |-> pid,
   bookingBase |-> base]

\* the three rows, then .filter(p => p.apiKey)
loadProvidersFromEnv(e) ==
  SelectSeq(<<Provider("1", "STYLE", e.apiKey[1], e.propertyID[1], "svLoIs"),
              Provider("2", "COLONIAL", e.apiKey[2], e.propertyID[2], "3atiWS"),
              Provider("3", "ALTOS DE LA VIUDA", e.apiKey[3], e.propertyID[3], "AwNrlI")>>,
            LAMBDA p : p.apiKey)

\* out.find(...): the index of the first provider among the hits H, 0 without hit
FirstHit(H) == IF H = {} THEN 0 ELSE CHOOSE h \in H : \A j \in H : h <= j

\* if (hit) out = [hit, ...out.filter(p => p !== hit)]
MoveFirst(arr, h) ==
  IF h = 0 THEN arr
  ELSE <<arr[h]>> \o SelectSeq(arr, LAMBDA p : p.slot # arr[h].slot)

orderProviders(arr, desiredPropertyID, preferredSlot) ==
  IF desiredPropertyID # ""
  THEN MoveFirst(arr, FirstHit({i \in 1..Len(arr) : arr[i].propertyID = desiredPropertyID}))
  ELSE IF preferredSlot # ""
  THEN MoveFirst(arr, FirstHit({i \in 1..Len(arr) : arr[i].slot = preferredSlot}))
  ELSE arr

\* function inferMinLos(details, arrival)
inferMinLos(details, arrival) ==
  IF toInt(arrival.minLos, 0) > 0 THEN toInt(arrival.minLos, 1)
  ELSE LET all == [i \in 1..Len(details) |-> toInt(details[i].minLos, 0)]
           mins == SelectSeq(all, LAMBDA n : n > 0)
       IN IF Len(mins) > 0 THEN SeqMax(mins) ELSE 1

\* the result of tryProvider: { ok, reason } or { ok, link }; threw: an
\* exception left tryProvider; m: the minLos it inferred (0: not reached)
TPResult(isOk, reason, link, threw, m) ==
  [ok |-> isOk, reason |-> reason, link |-> link, threw |-> threw, minLos |-> m]

TPFail(text) == TPResult(FALSE, Reason(text), "", FALSE, 0)

\* plans.filter(ratePlanId).map(details).filter(roomTypeId); the nightly
\* records of the modelled answers carry no roomTypeId of their own
TPFiltered(plans, ratePlanId, roomTypeId) ==
  SelectSeq(plans, LAMBDA pl : /\ (ratePlanId = "" \/ pl.ratePlanId = ratePlanId)
                               /\ (roomTypeId = "" \/ pl.roomTypeId = roomTypeId))

\* window.length < nights
TPIncompleteWindow(window, n) == JsLt(Len(window), n)

\* nights < minLos
TPBelowMinStay(n, m) == JsLt(n, m)

\* details.find(checkout)?.closedToDeparture || details.find(lastNight)?.closedToDeparture
TPDepClosed(details, co, lastNight) ==
  \/ FindDate(details, co).closedToDeparture
  \/ FindDate(details, lastNight).closedToDeparture

\* window.some(d => toInt(d?.roomsAvailable, 0) === 0)
TPNoAvailability(window) ==
  \E i \in 1..Len(window) : toInt(window[i].roomsAvailable, 0) = 0

\* window.some(d => toNum(d?.rate, 0) <= 0)
TPNoPublishedRate(window) ==
  \E i \in 1..Len(window) : toNum(window[i].rate, 0) <= 0

\* "Validate window" (lines 121-151)
TPValidateWindow(p, candidate, ci, co) ==
  LET n == diffDays(ci, co)
      details == IF candidate.rrdIsArray THEN candidate.details ELSE <<>>
      lastNight == addDays(ci, n - 1)
      window == WindowDays(details, ci, lastNight)
      arrival == FindDate(details, ci)
      m == inferMinLos(details, arrival)
  IN IF addDaysThrows(ci, n) THEN TPResult(FALSE, Reason(""), "", TRUE, 0)
     ELSE IF TPIncompleteWindow(window, n) THEN TPFail("Missing nightly rates across window")
     ELSE IF TPBelowMinStay(n, m)
     THEN TPResult(FALSE, ReasonN("Minimum stay is N nights", m), "", FALSE, m)
     ELSE IF arrival.closedToArrival
     THEN TPResult(FALSE, Reason("Closed to arrival"), "", FALSE, m)
     ELSE IF TPDepClosed(details, co, lastNight)
     THEN TPResult(FALSE, Reason("Closed to departure"), "", FALSE, m)
     ELSE IF TPNoAvailability(window)
     THEN TPResult(FALSE, Reason("No availability on one or more nights"), "", FALSE, m)
     ELSE IF TPNoPublishedRate(window)
     THEN TPResult(FALSE, Reason("No published rate on one or more nights"), "", FALSE, m)
     ELSE TPResult(TRUE, Reason(""), p.bookingBase, FALSE, m)

\* tryProvider from the upstream answer on (lines 99-151)
tryProviderAfterFetch(p, a, ci, co, ratePlanId, roomTypeId) ==
  IF a.kind = "netfail" THEN TPFail("Network error contacting provider")
  ELSE IF UpstreamFailed(a) THEN TPFail(MessageOr(a, "Cloudbeds HTTP error"))
  ELSE IF Len(PlansOf(a)) = 0 THEN TPFail("No plans found")
  ELSE IF Len(TPFiltered(PlansOf(a), ratePlanId, roomTypeId)) = 0
  THEN TPFail("No matching room/rate plan")
  ELSE TPValidateWindow(p, TPFiltered(PlansOf(a), ratePlanId, roomTypeId)[1], ci, co)

\* tryProvider's config checks (lines 85-87): "" when the call goes out
TPConfigFault(p, propertyID) ==
  IF ~p.apiKey THEN "Missing API key"
  ELSE IF propertyID = "" THEN "Missing property ID"
  ELSE IF p.bookingBase = "" THEN "Missing booking link"
  ELSE ""

\* the property ID an attempt on ordered[i] is made with (lines 45 and 62)
TPPropertyID(ordered, i) ==
  IF i = 1 /\ req.propertyID # "" THEN req.propertyID ELSE ordered[i].propertyID

\* the next provider from index i on whose call goes out; 0 when none is left
TPNextCall(ordered, i) ==
  LET S == {k \in i..Len(ordered) : TPConfigFault(ordered[k], TPPropertyID(ordered, k)) = ""}
  IN IF S = {} THEN 0 ELSE CHOOSE k \in S : \A j \in S : k <= j

\* the results of the attempts i..j that fail on their configuration
TPConfigFailures(ordered, i, j) ==
  [k \in 1..(j + 1 - i) |->
     TPFail(TPConfigFault(ordered[i + k - 1], TPPropertyID(ordered, i + k - 1)))]

\* lines 54-74: the response once the desired property has failed
TPUnavailable(lp) ==
  LET reason == IF lp.results[1].reason.text = "" THEN Reason("Unavailable")
                ELSE lp.results[1].reason
  IN IF Len(lp.links) > 0
     THEN TPok(Url("Desired property unavailable: R || Alternatives: L", reason, lp.links))
     ELSE TPok(Url("ERROR: No availability found for the desired property (D) - R. No alternatives available for your dates.",
                   reason, <<>>))

\* after a failed attempt on ordered[lp.i]: the loop over the others goes on to
\* its next call, or the handler responds
TPContinue(lp) ==
  LET last == Len(lp.ordered)
      nxt == IF req.fallback THEN TPNextCall(lp.ordered, lp.i + 1) ELSE 0
      upto == IF nxt # 0 THEN nxt - 1 ELSE IF req.fallback THEN last ELSE lp.i
      skipped == TPConfigFailures(lp.ordered, lp.i + 1, upto)
      lq == [lp EXCEPT !.i = IF nxt # 0 THEN nxt ELSE upto,
                       !.results = lp.results \o skipped,
                       !.answers = lp.answers \o [k \in 1..Len(skipped) |-> NoAnswer]]
  IN IF nxt # 0
     THEN /\ pc' = "awaitAlt" /\ calls' = calls + 1 /\ upstream' = OkAnswer(<<>>)
          /\ loop' = lq /\ resp' = resp
     ELSE /\ pc' = "done" /\ calls' = calls /\ upstream' = upstream
          /\ loop' = lq /\ resp' = TPUnavailable(lq)

\* lines 4-47: parse, sanity checks, provider order, the attempt on the desired
TPCheck ==
  /\ handler = "TP" /\ pc = "start"
  /\ LET ci == normDate(req.startDate)
         co == normDate(req.endDate)
         allProviders == loadProvidersFromEnv(env)
         ordered == orderProviders(allProviders, req.propertyID, req.provider)
     IN IF ci = NoDate \/ co = NoDate
        THEN /\ resp' = TPok(Url("ERROR: Missing check-in or check-out (YYYY-MM-DD).", Reason(""), <<>>))
             /\ pc' = "done" /\ UNCHANGED <<calls, upstream, loop>>
        ELSE IF JsLe(diffDays(ci, co), 0)
        THEN /\ resp' = TPok(Url("ERROR: checkout must be after checkin", Reason(""), <<>>))
             /\ pc' = "done" /\ UNCHANGED <<calls, upstream, loop>>
        ELSE IF req.propertyID = "" /\ req.provider = ""
        THEN /\ resp' = TPok(Url("ERROR: propertyID is required (or provider=1|2|3 override).", Reason(""), <<>>))
             /\ pc' = "done" /\ UNCHANGED <<calls, upstream, loop>>
        ELSE IF Len(allProviders) = 0
        THEN /\ resp' = TPok(Url("ERROR: No providers configured (missing API keys).", Reason(""), <<>>))
             /\ pc' = "done" /\ UNCHANGED <<calls, upstream, loop>>
        ELSE IF TPConfigFault(ordered[1], TPPropertyID(ordered, 1)) = ""
        THEN /\ pc' = "await" /\ calls' = calls + 1 /\ upstream' = OkAnswer(<<>>)
             /\ loop' = Loop(ordered, 1, <<>>, <<>>, <<>>) /\ resp' = resp
        ELSE TPContinue(Loop(ordered, 1, <<NoAnswer>>,
                             TPConfigFailures(ordered, 1, 1), <<>>))
  /\ UNCHANGED <<handler, env, req, minLos>>

\* lines 43-55: the desired property's answer arrives
TPDesiredReceive ==
  /\ handler = "TP" /\ pc = "await"
  /\ LET r == tryProviderAfterFetch(loop.ordered[1], upstream, normDate(req.startDate),
                                    normDate(req.endDate), req.ratePlanId, req.roomTypeId)
         lp == [loop EXCEPT !.answers = <<upstream>>, !.results = <<r>>]
     IN /\ minLos' = r.minLos
        /\ IF r.threw
           THEN /\ resp' = TPok(Url("ERROR: Unexpected server error.", Reason(""), <<>>))
                /\ pc' = "done" /\ loop' = lp /\ UNCHANGED <<calls, upstream>>
           ELSE IF r.ok
           THEN /\ resp' = TPok(Url("[D] L", Reason(""), <<lp.ordered[1].name, r.link>>))
                /\ pc' = "done" /\ loop' = lp /\ UNCHANGED <<calls, upstream>>
           ELSE TPContinue(lp)
  /\ UNCHANGED <<handler, env, req>>

\* lines 59-66: the answer of one of the other providers arrives
TPAltReceive ==
  /\ handler = "TP" /\ pc = "awaitAlt"
  /\ \E r \in {tryProviderAfterFetch(loop.ordered[loop.i], upstream, normDate(req.startDate),
                                      normDate(req.endDate), req.ratePlanId, req.roomTypeId)} :
     \E lp \in {[loop EXCEPT !.answers = @ \o <<upstream>>, !.results = @ \o <<r>>,
                              !.links = IF r.ok
                                        THEN @ \o <<loop.ordered[loop.i].name, r.link>>
                                        ELSE @]} :
        IF r.threw
        THEN /\ resp' = TPok(Url("ERROR: Unexpected server error.", Reason(""), <<>>))
             /\ pc' = "done" /\ loop' = lp /\ UNCHANGED <<calls, upstream>>
        ELSE TPContinue(lp)
  /\ UNCHANGED <<handler, env, req, minLos>>

(***************************************************************************)
(* get-reservations.js, second handler: documented as returning            *)
(* { valid, minimumNightsRequiredToStay, reason? }.                        *)
(***************************************************************************)
\* res.status(200).json({ valid, minimumNightsRequiredToStay, reason })
GRVerdict(valid, m, reason) ==
  Response(200, {"valid", "minimumNightsRequiredToStay", "reason"}, FALSE, valid, reason, m)

\* the helpers the file defines after the handler (lines 197-212): normDate,
\* toInt and toNum; diffDays and addDays, which the handler calls, are not among them
GRHelpers == {"normDate", "toInt", "toNum"}

\* lines 45-58 and 187-194: the call of diffDays at line 58 is a ReferenceError
\* inside the try, and the catch answers; lines 59-185 are never reached
GRHandle ==
  /\ handler = "GR" /\ pc = "start"
  /\ "diffDays" \notin GRHelpers
  /\ resp' = GRVerdict(FALSE, 1, Reason(VRError))
  /\ pc' = "done"
  /\ UNCHANGED <<handler, env, req, calls, upstream, minLos, loop>>

(***************************************************************************)
(* part_002 (api/build-booking-link.js, single provider): returns          *)
(* { success, valid, reason, message, url? }.                              *)
(***************************************************************************)
\* function ok(res, body): success:true, url:null unless the body sets it
SPok(valid, reason, url) ==
  [Response(200, {"success", "url", "valid", "reason", "message"}, TRUE, valid, reason, 0)
     EXCEPT !.url = url]

SPNoKey == "Configuracion del servidor faltante (API key)."
SPNoBookingId == "Falta configurar el ID del motor de reservas (bookingId)."

\* lines 46-90: the rules on the nightly details, then the link
SPRules(details, ci, co, n, bookId) ==
  LET arrival == FindDate(details, ci)
      m == IF toInt(arrival.minLos, 0) > 0 THEN toInt(arrival.minLos, 1)
           ELSE LET all == [i \in 1..Len(details) |-> toInt(details[i].minLos, 0)]
                    mins == SelectSeq(all, LAMBDA x : x > 0)
                IN IF Len(mins) > 0 THEN SeqMax(mins) ELSE 1
      lastNight == addDays(co, 0 - 1)
      windowDays == WindowDays(details, ci, lastNight)
  IN IF addDaysThrows(co, 0 - 1) THEN SPok(FALSE, Reason(VRError), NoUrl)
     ELSE IF JsLt(Len(windowDays), n) THEN SPok(FALSE, Reason(VRIncomplete), NoUrl)
     ELSE IF JsLt(n, m) THEN SPok(FALSE, ReasonN(VRMinStay, m), NoUrl)
     ELSE IF arrival.closedToArrival THEN SPok(FALSE, Reason(VRNoArrival), NoUrl)
     ELSE IF \/ FindDate(details, co).closedToDeparture
             \/ FindDate(details, lastNight).closedToDeparture
     THEN SPok(FALSE, Reason(VRNoDeparture), NoUrl)
     ELSE IF \E i \in 1..Len(windowDays) : toInt(windowDays[i].roomsAvailable, 0) = 0
     THEN SPok(FALSE, Reason(VRNoRooms), NoUrl)
     ELSE IF \E i \in 1..Len(windowDays) : toNum(windowDays[i].rate, 0) <= 0
     THEN SPok(FALSE, Reason(VRNoRate), NoUrl)
     ELSE SPok(TRUE, Reason("OK"), Url("L", Reason(""), <<bookId>>))

\* lines 35-44 and 92-94: the upstream answer, or the catch
SPAfterFetch(a, ci, co, n, bookId) ==
  IF a.kind = "netfail" THEN SPok(FALSE, Reason(VRError), NoUrl)
  ELSE IF UpstreamFailed(a) \/ Len(PlansOf(a)) = 0 THEN SPok(FALSE, Reason(VRNoPlans), NoUrl)
  ELSE IF Len(DetailsOf(PlansOf(a))) = 0 THEN SPok(FALSE, Reason(VRNoDetails), NoUrl)
  ELSE SPRules(DetailsOf(PlansOf(a)), ci, co, n, bookId)

\* lines 4-35: parse, the four checks, then the getRatePlans call
SPCheck ==
  /\ handler = "SP" /\ pc = "start"
  /\ LET ci == normDate(req.startDate)
         co == normDate(req.endDate)
         n == diffDays(ci, co)
     IN IF ci = NoDate \/ co = NoDate
        THEN /\ resp' = SPok(FALSE, Reason(VRMissingDates), NoUrl)
             /\ pc' = "done" /\ calls' = calls
        ELSE IF JsLe(n, 0)
        THEN /\ resp' = SPok(FALSE, Reason(VRBadOrder), NoUrl)
             /\ pc' = "done" /\ calls' = calls
        ELSE IF ~env.apiKey[1]
        THEN /\ resp' = SPok(FALSE, Reason(SPNoKey), NoUrl)
             /\ pc' = "done" /\ calls' = calls
        ELSE IF env.bookingId[1] = ""
        THEN /\ resp' = SPok(FALSE, Reason(SPNoBookingId), NoUrl)
             /\ pc' = "done" /\ calls' = calls
        ELSE /\ pc' = "await" /\ calls' = calls + 1 /\ resp' = resp
  /\ upstream' = IF pc' = "await" THEN OkAnswer(<<>>) ELSE upstream
  /\ UNCHANGED <<handler, env, req, minLos, loop>>

\* lines 35-94: the upstream answer arrives and the handler runs to its response
SPReceive ==
  /\ handler = "SP" /\ pc = "await"
  /\ LET ci == normDate(req.startDate)
         co == normDate(req.endDate)
     IN resp' = SPAfterFetch(upstream, ci, co, diffDays(ci, co), env.bookingId[1])
  /\ pc' = "done"
  /\ UNCHANGED <<handler, env, req, calls, upstream, minLos, loop>>

(***************************************************************************)
(* api/build-booking-link.js (multi-provider): one loop over the ordered   *)
(* providers; { success: true, url } with the links joined by " || " or    *)
(* "ERROR: slot1: reason | slot2: reason | ...".                           *)
(***************************************************************************)
\* function ok(res, urlStr)
MPok(url) ==
  [Response(200, {"success", "url"}, TRUE, FALSE, Reason(""), 0) EXCEPT !.url = url]

MPProvider(slot, key, pid, bid) ==
  [slot |-> slot, apiKey |-> key, propertyID |-> pid, bookingId |-> bid]

\* CLOUDBEDS_BOOKING_ID_n || CLOUDBEDS_BOOKING_ID
MPBookingId(e, n) == IF e.bookingId[n] # "" THEN e.bookingId[n] ELSE e.bookingId[1]

\* the three rows, then rows.filter(r => r.apiKey || r.propertyID || r.bookingId)
MPloadProvidersFromEnv(e) ==
  SelectSeq(<<MPProvider("1", e.apiKey[1], e.propertyID[1], e.bookingId[1]),
              MPProvider("2", e.apiKey[2], e.propertyID[2], MPBookingId(e, 2)),
              MPProvider("3", e.apiKey[3], e.propertyID[3], MPBookingId(e, 3))>>,
            LAMBDA r : r.apiKey \/ r.propertyID # "" \/ r.bookingId # "")

\* { slot: p.slot, reason }
MPAttempt(slot, reason) == [slot |-> slot, reason |-> reason]

\* lines 42-45 (apiBase always has its default): "" when the call goes out
MPConfigFault(p) ==
  IF ~p.apiKey THEN "Missing API key"
  ELSE IF p.propertyID = "" THEN "Missing property ID"
  ELSE IF p.bookingId = "" THEN "Missing booking engine id"
  ELSE ""

\* window.length < nights
MPIncompleteWindow(window, n) == JsLt(Len(window), n)

\* nights < minLos
MPBelowMinStay(n, m) == JsLt(n, m)

\* lines 87-89
MPDepClosed(details, co, lastNight) ==
  \/ FindDate(details, co).closedToDeparture
  \/ FindDate(details, lastNight).closedToDeparture

\* window.some(d => toInt(d?.roomsAvailable, 0) === 0)
MPNoAvailability(window) ==
  \E i \in 1..Len(window) : toInt(window[i].roomsAvailable, 0) = 0

\* window.some(d => toNum(d?.rate, 0) <= 0)
MPNoPublishedRate(window) ==
  \E i \in 1..Len(window) : toNum(window[i].rate, 0) <= 0

\* lines 76-106: the stay window of the first filtered plan
MPValidateWindow(p, candidate, ci, co, n) ==
  LET details == IF candidate.rrdIsArray THEN candidate.details ELSE <<>>
      lastNight == addDays(ci, n - 1)
      window == WindowDays(details, ci, lastNight)
      arrival == FindDate(details, ci)
      m == inferMinLos(details, arrival)
  IN IF addDaysThrows(ci, n) THEN TPResult(FALSE, Reason(""), "", TRUE, 0)
     ELSE IF MPIncompleteWindow(window, n) THEN TPFail("Missing nightly rates across window")
     ELSE IF MPBelowMinStay(n, m)
     THEN TPResult(FALSE, ReasonN("Minimum stay is N nights", m), "", FALSE, m)
     ELSE IF arrival.closedToArrival
     THEN TPResult(FALSE, Reason("Closed to arrival"), "", FALSE, m)
     ELSE IF MPDepClosed(details, co, lastNight)
     THEN TPResult(FALSE, Reason("Closed to departure"), "", FALSE, m)
     ELSE IF MPNoAvailability(window)
     THEN TPResult(FALSE, Reason("No availability on one or more nights"), "", FALSE, m)
     ELSE IF MPNoPublishedRate(window)
     THEN TPResult(FALSE, Reason("No published rate on one or more nights"), "", FALSE, m)
     ELSE TPResult(TRUE, Reason(""), p.bookingId, FALSE, m)

\* lines 57-106: one iteration from the upstream answer on; the fetch is not
\* guarded inside the loop, so a rejected fetch reaches the handler's catch
MPEvaluate(q, p, a, ci, co, n) ==
  IF a.kind = "netfail" THEN TPResult(FALSE, Reason(""), "", TRUE, 0)
  ELSE IF UpstreamFailed(a) \/ Len(PlansOf(a)) = 0 THEN TPFail(MessageOr(a, "No plans found"))
  ELSE IF Len(TPFiltered(PlansOf(a), q.ratePlanId, q.roomTypeId)) = 0
  THEN TPFail("No matching room/rate plan for requested filters")
  ELSE MPValidateWindow(p, TPFiltered(PlansOf(a), q.ratePlanId, q.roomTypeId)[1], ci, co, n)

\* attempts.map(a => `slot${a.slot}: ${a.reason || 'failed'}`)
MPEntries(attempts) ==
  [k \in 1..Len(attempts) |->
     MPAttempt(attempts[k].slot,
               IF attempts[k].reason.text = "" THEN Reason("failed") ELSE attempts[k].reason)]

\* lines 113-120: the response after the loop
MPRespond(lp) ==
  IF Len(lp.links) > 0 THEN MPok(Url("L || L", Reason(""), lp.links))
  ELSE MPok([Url("ERROR: slotN: reason | slotN: reason", Reason(""), <<>>)
               EXCEPT !.entries = MPEntries(lp.results)])

\* the loop from the end of the iteration on ordered[lp.i] (failed: it ended on
\* a reason) to its next upstream call, or to the response: a failure without
\* fallback breaks; providers that fail on their configuration make no call
MPStopsAtEndOnly(q, lp, failed) == lp.i = Len(lp.ordered)

\* "if (!fallback) break; else continue;" on a reason, "continue" on a link
MPStops(q, lp, failed) == (failed /\ ~q.fallback) \/ lp.i = Len(lp.ordered)

\* the locals of an invocation at an await point or at its end: where it is,
\* its loop, its response, whether it has just issued a call, its minLos
MPState(at, lp, r, called, m) ==
  [pc |-> at, loop |-> lp, resp |-> r, called |-> called, minLos |-> m]

\* the loop from the end of the iteration on ordered[lp.i] (failed: it ended on
\* a reason) to its next upstream call, or to the response: a failure without
\* fallback breaks; providers that fail on their configuration make no call
MPContinue(q, lp, failed) ==
  LET last == Len(lp.ordered)
      stop == MPStops(q, lp, failed)
      S == {k \in (lp.i + 1)..last : MPConfigFault(lp.ordered[k]) = ""}
      nxtOk == IF S = {} THEN 0 ELSE CHOOSE k \in S : \A j \in S : k <= j
      target == IF stop THEN 0
                ELSE IF q.fallback THEN nxtOk
                ELSE IF MPConfigFault(lp.ordered[lp.i + 1]) = "" THEN lp.i + 1 ELSE 0
      upto == IF stop THEN lp.i
              ELSE IF q.fallback THEN (IF nxtOk # 0 THEN nxtOk - 1 ELSE last)
              ELSE IF MPConfigFault(lp.ordered[lp.i + 1]) = "" THEN lp.i ELSE lp.i + 1
      skipped == [k \in 1..(upto - lp.i) |->
                    MPAttempt(lp.ordered[lp.i + k].slot,
                              Reason(MPConfigFault(lp.ordered[lp.i + k])))]
      lq == [lp EXCEPT !.i = IF target # 0 THEN target ELSE upto,
                       !.results = lp.results \o skipped,
                       !.answers = lp.answers \o [k \in 1..Len(skipped) |-> NoAnswer]]
  IN IF target # 0 THEN MPState("await", lq, NoResponse, 1, 0)
     ELSE MPState("done", lq, MPRespond(lq), 0, 0)

\* lines 6-57: parse, sanity, provider order, the loop up to its first call
MPBegin(q, e) ==
  LET ci == normDate(q.startDate)
      co == normDate(q.endDate)
      providers == orderProviders(MPloadProvidersFromEnv(e), q.desiredPropertyID, q.provider)
  IN IF ci = NoDate \/ co = NoDate
     THEN MPState("done", NoLoop,
                  MPok(Url("ERROR: Missing check-in or check-out (YYYY-MM-DD).", Reason(""), <<>>)),
                  0, 0)
     ELSE IF JsLe(diffDays(ci, co), 0)
     THEN MPState("done", NoLoop,
                  MPok(Url("ERROR: checkout must be after checkin.", Reason(""), <<>>)), 0, 0)
     ELSE IF Len(providers) = 0
     THEN MPState("done", NoLoop,
                  MPok(Url("ERROR: No providers configured.", Reason(""), <<>>)), 0, 0)
     ELSE MPContinue(q, Loop(providers, 0, <<>>, <<>>, <<>>), FALSE)

\* lines 57-111: the answer a of the provider ordered[lp.i] arrives; the
\* iteration ends and the loop goes on to its next call or the handler responds
MPResume(q, lp, a) ==
  LET ci == normDate(q.startDate)
      co == normDate(q.endDate)
      p == lp.ordered[lp.i]
      r == MPEvaluate(q, p, a, ci, co, diffDays(ci, co))
      lq == [lp EXCEPT !.answers = @ \o <<a>>,
                       !.results = @ \o <<MPAttempt(p.slot, r.reason)>>,
                       !.links = IF r.ok THEN @ \o <<r.link>> ELSE @]
  IN IF r.threw
     THEN MPState("done", lq, MPok(Url("ERROR: Unexpected server error.", Reason(""), <<>>)),
                  0, r.minLos)
     ELSE [MPContinue(q, lq, ~r.ok) EXCEPT !.minLos = r.minLos]

\* the handler up to its first await point, or to its response
MPCheck ==
  /\ handler = "MP" /\ pc = "start"
  /\ LET st == MPBegin(req, env)
     IN /\ pc' = st.pc /\ loop' = st.loop /\ resp' = st.resp
        /\ calls' = calls + st.called
        /\ upstream' = IF st.called = 1 THEN OkAnswer(<<>>) ELSE upstream
  /\ UNCHANGED <<handler, env, req, minLos>>

\* the handler from an await point to the next one, or to its response
MPReceive ==
  /\ handler = "MP" /\ pc = "await"
  /\ LET st == MPResume(req, loop, upstream)
     IN /\ pc' = st.pc /\ loop' = st.loop /\ minLos' = st.minLos
        /\ resp' = IF st.pc = "done" THEN st.resp ELSE resp
        /\ calls' = calls + st.called
        /\ upstream' = IF st.called = 1 THEN OkAnswer(<<>>) ELSE upstream
  /\ UNCHANGED <<handler, env, req>>

(***************************************************************************)
(* Two invocations of the multi-provider link builder in one process:      *)
(* req, pc, loop, resp, upstream, calls and minLos hold one value per      *)
(* invocation; the invocations interleave at their await points.           *)
(***************************************************************************)
Invocations == {1, 2}

\* a module-level foundLinks, pushed to by both invocations
MP2LocalsShared(i) == [loop[i] EXCEPT !.links = loop[1].links \o loop[2].links]

\* const foundLinks = []; const attempts = []; declared inside the handler
MP2Locals(i) == loop[i]

\* invocation i moves to the state st
MP2Becomes(i, st) ==
  /\ pc' = [pc EXCEPT ![i] = st.pc]
  /\ loop' = [loop EXCEPT ![i] = st.loop]
  /\ resp' = [resp EXCEPT ![i] = IF st.pc = "done" THEN st.resp ELSE @]
  /\ minLos' = [minLos EXCEPT ![i] = st.minLos]
  /\ calls' = [calls EXCEPT ![i] = @ + st.called]
  /\ upstream' = [upstream EXCEPT ![i] = IF st.called = 1 THEN OkAnswer(<<>>) ELSE @]
  /\ UNCHANGED <<handler, env, req>>

MP2Check(i) ==
  /\ handler = "MP2" /\ pc[i] = "start"
  /\ MP2Becomes(i, MPBegin(req[i], env))

MP2Receive(i) ==
  /\ handler = "MP2" /\ pc[i] = "await"
  /\ MP2Becomes(i, MPResume(req[i], MP2Locals(i), upstream[i]))

\* the provider answers the call of invocation i with one of A
MP2ProviderAnswers(i, A) ==
  /\ handler = "MP2" /\ pc[i] = "await" /\ upstream[i] = OkAnswer(<<>>)
  /\ \E a \in A : upstream' = [upstream EXCEPT ![i] = a]
  /\ UNCHANGED <<handler, env, req, pc, calls, minLos, resp, loop>>

(***************************************************************************)
(* part_006 (api/get-price.js): the total price of a room type, with       *)
(* computeWindowTotal validating the stay window of each candidate plan.   *)
(***************************************************************************)
\* the result of computeWindowTotal: { ok, reason, amount }
CWResult(isOk, reason, amount) == [ok |-> isOk, reason |-> reason, amount |-> amount]

\* function inferMinLos(details, arrival) of part_006
PHinferMinLos(details, arrival) ==
  IF toInt(arrival.minLos, 0) > 0 THEN toInt(arrival.minLos, 0)
  ELSE LET all == [i \in 1..Len(details) |-> toInt(details[i].minLos, 0)]
           mins == SelectSeq(all, LAMBDA x : x > 0)
       IN IF Len(mins) > 0 THEN SeqMax(mins) ELSE 1

\* window.reduce((s, d) => s + toNum(d?.rate, 0), 0)
RECURSIVE SumRates(_)
SumRates(window) ==
  IF Len(window) = 0 THEN 0 ELSE toNum(Head(window).rate, 0) + SumRates(Tail(window))

\* details.find(endDate)?.closedToDeparture || details.find(last)?.closedToDeparture
CWDepClosed(details, endDate, last) ==
  \/ FindDate(details, endDate).closedToDeparture
  \/ FindDate(details, last).closedToDeparture

\* let amount = toNum(plan?.roomRate, 0); if (amount <= 0) amount = window.reduce(...)
CWAmount(plan, window) ==
  IF toNum(plan.roomRate, 0) <= 0 THEN SumRates(window) ELSE toNum(plan.roomRate, 0)

\* function computeWindowTotal(plan, startDate, endDate)
computeWindowTotal(plan, startDate, endDate) ==
  LET n == diffDays(startDate, endDate)
      details == IF plan.rrdIsArray THEN plan.details ELSE <<>>
      last == addDays(startDate, n - 1)
      window == WindowDays(details, startDate, last)
      arrival == FindDate(details, startDate)
      m == PHinferMinLos(details, arrival)
  IN IF Len(details) = 0 THEN CWResult(FALSE, Reason("No nightly details"), 0)
     ELSE IF JsLt(Len(window), n)
     THEN CWResult(FALSE, Reason("Missing nightly rates across window"), 0)
     ELSE IF JsLt(n, m) THEN CWResult(FALSE, ReasonN("Minimum stay is N nights", m), 0)
     ELSE IF arrival.closedToArrival THEN CWResult(FALSE, Reason("Closed to arrival"), 0)
     ELSE IF CWDepClosed(details, endDate, last)
     THEN CWResult(FALSE, Reason("Closed to departure"), 0)
     ELSE IF \E i \in 1..Len(window) : toInt(window[i].roomsAvailable, 0) <= 0
     THEN CWResult(FALSE, Reason("No availability on one or more nights"), 0)
     ELSE IF \E i \in 1..Len(window) : toNum(window[i].rate, 0) <= 0
     THEN CWResult(FALSE, Reason("No published rate on one or more nights"), 0)
     ELSE CWResult(TRUE, Reason(""), CWAmount(plan, window))

\* the plan as if the evaluation kept only the nights of the window in it
CWPlanWindowOnly(plan, startDate, endDate) ==
  [plan EXCEPT !.details =
     WindowDays(plan.details, startDate,
                addDays(startDate, diffDays(startDate, endDate) - 1))]

\* the plan after computeWindowTotal: filter, find, some and reduce build new
\* values, and the function assigns to no field of the plan or of a record
CWPlanAfter(plan, startDate, endDate) == plan

\* one evaluation of computeWindowTotal on the plan the provider composed: the
\* first keeps the plan as it was handed over and its result, the second
\* evaluates again what the first left
CWStart ==
  /\ handler = "CW" /\ pc = "start"
  /\ pc' = "await" /\ upstream' = OkAnswer(<<>>)
  /\ UNCHANGED <<handler, env, req, calls, minLos, resp, loop>>

CWEvaluate ==
  /\ handler = "CW" /\ pc \in {"await", "again"}
  /\ \E plan \in {upstream.plans[1]} :
     \E startDate \in {normDate(req.startDate)} :
     \E endDate \in {normDate(req.endDate)} :
       /\ loop' = [loop EXCEPT
                     !.answers = IF pc = "await" THEN <<plan>> ELSE @,
                     !.results = Append(IF pc = "await" THEN <<>> ELSE @,
                                        computeWindowTotal(plan, startDate, endDate))]
       /\ upstream' = [upstream EXCEPT
                         !.plans[1] = CWPlanAfter(plan, startDate, endDate)]
  /\ pc' = IF pc = "await" THEN "again" ELSE "done"
  /\ UNCHANGED <<handler, env, req, calls, minLos, resp>>

\* function bad(res, message)
PHbad(message) == Response(200, {"success", "message"}, FALSE, FALSE, Reason(message), 0)

\* the success body: roomTypeMatched (null without plans) and totalPrice
PHok(matched, totalPrice) ==
  [Response(200, {"success", "propertyID", "startDate", "endDate", "nights",
                  "roomTypeMatched", "totalPrice"}, TRUE, FALSE, Reason(""), 0)
     EXCEPT !.totalPrice = totalPrice, !.roomTypeMatched = matched]

\* roomTypeMatched: { id: toStr(best.plan?.roomTypeID), name: toStr(best.plan?.roomTypeName) }
PHMatched(plan) == [null |-> FALSE, id |-> plan.roomTypeID, name |-> plan.roomTypeName]

\* function normalize(s): names are sequences of characters; lower case.
\* The modelled names carry no accents and no blanks.
normalize(s) == [i \in 1..Len(s) |-> IF s[i] = "Q" THEN "q" ELSE s[i]]

\* String.prototype.includes: t occurs in s ('' occurs in every string)
Includes(s, t) ==
  \E i \in 0..Len(s) : i + Len(t) <= Len(s) /\ SubSeq(s, i + 1, i + Len(t)) = t

\* the predicate of filterByRoomType (lines 159-167) on a plan and the query
PHAccepts(pl, q) ==
  IF q.ratePlanId # "" /\ pl.rateID # q.ratePlanId THEN FALSE
  ELSE IF q.roomTypeID # "" /\ q.roomTypeID = pl.roomTypeID THEN TRUE
  ELSE IF normalize(q.roomTypeName) = <<>> THEN TRUE
  ELSE \/ Includes(normalize(pl.roomTypeName), normalize(q.roomTypeName))
       \/ Includes(normalize(q.roomTypeName), normalize(pl.roomTypeName))

filterByRoomType(plans, q) == SelectSeq(plans, LAMBDA pl : PHAccepts(pl, q))

\* Prefer exact ID match (3), exact name match (2), substring (1), else 0
scoreRoomMatch(plan, q) ==
  IF q.roomTypeID # "" /\ q.roomTypeID = plan.roomTypeID THEN 3
  ELSE IF normalize(q.roomTypeName) # <<>>
          /\ normalize(plan.roomTypeName) = normalize(q.roomTypeName) THEN 2
  ELSE IF normalize(q.roomTypeName) # <<>>
          /\ Includes(normalize(plan.roomTypeName), normalize(q.roomTypeName)) THEN 1
  ELSE 0

\* candidates.map(pl => ({ plan, score, total })).filter(x => x.total.ok)
PHScored(candidates, q, startDate, endDate) ==
  SelectSeq([i \in 1..Len(candidates) |->
               [plan |-> candidates[i], score |-> scoreRoomMatch(candidates[i], q),
                total |-> computeWindowTotal(candidates[i], startDate, endDate)]],
            LAMBDA x : x.total.ok)

\* a comparator that looks at the price only
PHCompareByPrice(a, b) == a.total.amount - b.total.amount

\* the comparator of scored.sort (lines 83-86): negative when a goes first
PHCompare(a, b) ==
  IF b.score # a.score THEN b.score - a.score ELSE a.total.amount - b.total.amount

\* scored.sort(...)[0]: Array.prototype.sort is stable, so of the entries that
\* no entry precedes, the one that came first
PHBest(scored) ==
  scored[CHOOSE i \in 1..Len(scored) :
           \A j \in 1..Len(scored) :
              \/ PHCompare(scored[i], scored[j]) < 0
              \/ PHCompare(scored[i], scored[j]) = 0 /\ i <= j]

\* the keys of the map in getProviderForProperty ('198424', '198425', '303475')
PHKnownProperties == {"P1", "P2", "P3"}

\* lines 9-48: required inputs, provider mapping, then the getRatePlans call
PHCheck ==
  /\ handler = "PH" /\ pc = "start"
  /\ LET startDate == normDate(req.startDate)
         endDate == normDate(req.endDate)
     IN IF req.propertyID = ""
        THEN /\ resp' = PHbad("propertyID required")
             /\ pc' = "done" /\ calls' = calls
        ELSE IF startDate = NoDate \/ endDate = NoDate
        THEN /\ resp' = PHbad("startDate and endDate required (YYYY-MM-DD)")
             /\ pc' = "done" /\ calls' = calls
        ELSE IF JsLe(diffDays(startDate, endDate), 0)
        THEN /\ resp' = PHbad("checkout must be after checkin")
             /\ pc' = "done" /\ calls' = calls
        ELSE IF req.propertyID \notin PHKnownProperties
        THEN /\ resp' = PHbad("Unknown propertyID")
             /\ pc' = "done" /\ calls' = calls
        ELSE /\ pc' = "await" /\ calls' = calls + 1 /\ resp' = resp
  /\ upstream' = IF pc' = "await" THEN OkAnswer(<<>>) ELSE upstream
  /\ UNCHANGED <<handler, env, req, minLos, loop>>

\* lines 48-107: the answer arrives; the candidates are filtered, scored and
\* validated, the best one is priced. computeWindowTotal throws in addDays
\* for a candidate with nightly details when the dates are no calendar dates.
PHReceive ==
  /\ handler = "PH" /\ pc = "await"
  /\ \E startDate \in {normDate(req.startDate)}, endDate \in {normDate(req.endDate)} :
     \E candidates \in {filterByRoomType(PlansOf(upstream), req)} :
     \E scored \in {PHScored(candidates, req, startDate, endDate)} :
       LET a == upstream
           threw == /\ addDaysThrows(startDate, diffDays(startDate, endDate))
                    /\ \E i \in 1..Len(candidates) :
                         candidates[i].rrdIsArray /\ Len(candidates[i].details) # 0
       IN IF a.kind = "netfail" THEN resp' = PHbad("fetch failed") /\ loop' = loop
          ELSE IF UpstreamFailed(a)
          THEN resp' = PHbad(MessageOr(a, "Cloudbeds error")) /\ loop' = loop
          ELSE IF Len(PlansOf(a)) = 0 THEN resp' = PHok(NoMatch, 0) /\ loop' = loop
          ELSE IF Len(candidates) = 0
          THEN resp' = PHbad("Room type not found or not available: W") /\ loop' = loop
          ELSE IF threw
          THEN resp' = PHbad("Invalid time value") /\ loop' = loop
          ELSE /\ loop' = [loop EXCEPT
                             !.results = [i \in 1..Len(candidates) |->
                                            computeWindowTotal(candidates[i], startDate, endDate)]]
               /\ resp' = IF Len(scored) = 0
                          THEN PHbad("No valid rates across the requested window (min stay/closures/availability).")
                          ELSE PHok(PHMatched(PHBest(scored).plan), PHBest(scored).total.amount)
  /\ pc' = "done"
  /\ UNCHANGED <<handler, env, req, calls, upstream, minLos>>

(***************************************************************************)
(* api/get-price.js: the same selection, answered with { totalPrice }      *)
(* alone; every failure is a totalPrice of 0.                              *)
(***************************************************************************)
\* function only(res, amount)
GPonly(amount) ==
  [Response(200, {"totalPrice"}, FALSE, FALSE, Reason(""), 0) EXCEPT !.totalPrice = amount]

\* lines 4-33: inputs, nights, provider mapping, then the getRatePlans call
GPCheck ==
  /\ handler = "GP" /\ pc = "start"
  /\ LET startDate == normDate(req.startDate)
         endDate == normDate(req.endDate)
     IN IF \/ req.propertyID = "" \/ startDate = NoDate \/ endDate = NoDate
           \/ JsLe(diffDays(startDate, endDate), 0)
           \/ req.propertyID \notin PHKnownProperties
        THEN /\ resp' = Send(GPonly(0)) /\ pc' = "done"
             /\ UNCHANGED <<calls, upstream>>
        ELSE /\ pc' = "await" /\ calls' = calls + 1 /\ resp' = resp
             /\ upstream' = OkAnswer(<<>>)
  /\ UNCHANGED <<handler, env, req, minLos, loop>>

\* lines 33-62: the answer arrives; a failure, an empty selection and an
\* exception (fetch rejected, addDays thrown) all end in only(res, 0)
GPReceive ==
  /\ handler = "GP" /\ pc = "await"
  /\ \E startDate \in {normDate(req.startDate)}, endDate \in {normDate(req.endDate)} :
     \E candidates \in {filterByRoomType(PlansOf(upstream), req)} :
       LET a == upstream
           threw == /\ addDaysThrows(startDate, diffDays(startDate, endDate))
                    /\ \E i \in 1..Len(candidates) :
                         candidates[i].rrdIsArray /\ Len(candidates[i].details) # 0
       IN IF a.kind = "netfail" \/ UpstreamFailed(a) THEN resp' = Send(GPonly(0))
          ELSE IF Len(PlansOf(a)) = 0 \/ Len(candidates) = 0 \/ threw
          THEN resp' = Send(GPonly(0))
          ELSE \E scored \in {PHScored(candidates, req, startDate, endDate)} :
                 resp' = IF Len(scored) = 0 THEN Send(GPonly(0))
                         ELSE Send(GPonly(PHBest(scored).total.amount))
  /\ pc' = "done"
  /\ UNCHANGED <<handler, env, req, calls, upstream, minLos, loop>>

(***************************************************************************)
(* api/reserve.js (three variants) and part_008: relays of a booking to    *)
(* Cloudbeds postReservation.                                              *)
(*                                                                         *)
(* A booking request: its method and content type, the set of guest and    *)
(* property fields its body carries, its dates, its rooms array and its    *)
(* top-level single-room fields. A room: whether it carries roomTypeID and *)
(* a rate id, and its adults.                                              *)
(***************************************************************************)
Room(hasType, hasRate, adults) ==
  [roomTypeID |-> hasType, rateID |-> hasRate, adults |-> adults]

\* no top-level single-room field
NoRoom == Room(FALSE, FALSE, Undef)

Booking(method, ct, has, sd, ed, rooms, top) ==
  [method |-> method, contentType |-> ct, has |-> has, startDate |-> sd,
   endDate |-> ed, rooms |-> rooms, top |-> top]

\* function numOr(v, d) on adults / numAdults
numOr(v, d) == IF v.t = "num" THEN v.v ELSE IF v.t = "null" THEN 0 ELSE d

\* res.status(code).json({ success: false, message })
RelayFail(status, message) ==
  Response(status, {"success", "message"}, FALSE, FALSE, Reason(message), 0)

\* res.status(400).json({ success: false, message: `Missing required fields: ...` })
RelayMissing(names, key) ==
  [Response(400, {"success", key}, FALSE, FALSE, Reason("Missing required fields: ..."), 0)
     EXCEPT !.missing = names]

\* res.status(response.status).json({ ...data, _sentPreview })
RelayPass(a, extra) ==
  Response(a.status, {"...data"} \cup extra, a.success, FALSE, Reason(a.message), 0)

\* the names of F, in order, whose value is falsy
FalsyFields(q, F) ==
  SelectSeq(F, LAMBDA f :
    CASE f = "startDate" -> q.startDate.k = "absent"
      [] f = "endDate" -> q.endDate.k = "absent"
      [] OTHER -> f \notin q.has)

\* the call to postReservation goes out
RelayCall ==
  /\ pc' = "await" /\ calls' = calls + 1 /\ upstream' = HttpAnswer(200, TRUE, "")
  /\ resp' = resp

\* a rejection that is sent without "return": the handler goes on to its call
RelayRejectNoReturn(r) ==
  /\ pc' = "await" /\ calls' = calls + 1 /\ upstream' = HttpAnswer(200, TRUE, "")
  /\ resp' = Send(r)

\* return res.status(...).json(...)
RelayReject(r) ==
  /\ pc' = "done" /\ calls' = calls /\ upstream' = upstream /\ resp' = Send(r)

\* reserve.js 50-69: rooms[] mapped, or the single-room legacy fields
RMRooms(q) ==
  IF Len(q.rooms) > 0 THEN q.rooms
  ELSE IF q.top.roomTypeID \/ q.top.rateID THEN <<q.top>>
  ELSE <<>>

\* reserve.js 71-85 (quantity is numOr(undefined, 1) here)
RMMissing(q) ==
  LET start == normDate(q.startDate)
      end == normDate(q.endDate)
      rs == RMRooms(q)
  IN SelectSeq(<<"propertyID">>, LAMBDA f : f \notin q.has)
     \o (IF start = NoDate THEN <<"startDate">> ELSE <<>>)
     \o (IF end = NoDate THEN <<"endDate">> ELSE <<>>)
     \o SelectSeq(<<"guestFirstName", "guestLastName", "guestEmail", "guestCountry">>,
                  LAMBDA f : f \notin q.has)
     \o (IF Len(rs) = 0 THEN <<"rooms[0]">> ELSE <<>>)
     \o (IF Len(rs) > 0 /\ ~rs[1].roomTypeID THEN <<"rooms[i].roomTypeID">> ELSE <<>>)
     \o (IF Len(rs) > 0 /\ ~rs[1].rateID THEN <<"rooms[i].rateID">> ELSE <<>>)

\* reserve.js 6-117: the multipart relay up to its call
RMCheck ==
  /\ handler = "RM" /\ pc = "start"
  /\ IF req.method = "GET"
     THEN RelayReject(Response(200, {"ok", "message"}, FALSE, FALSE,
                               Reason("Cloudbeds reserve relay live"), 0))
     ELSE IF req.method # "POST" THEN RelayReject(RelayFail(405, "Method Not Allowed"))
     ELSE IF ~env.apiKey[1] THEN RelayReject(RelayFail(500, "Missing CLOUDBEDS_API_KEY env"))
     ELSE IF Len(RMMissing(req)) > 0 THEN RelayReject(RelayMissing(RMMissing(req), "message"))
     ELSE RelayCall
  /\ UNCHANGED <<handler, env, req, minLos, loop>>

\* reserve.js 113-135: status and body of Cloudbeds passed through
RMReceive ==
  /\ handler = "RM" /\ pc = "await"
  /\ resp' = IF upstream.kind = "netfail" THEN RelayFail(500, "fetch failed")
             ELSE RelayPass(upstream, {"_sentPreview"})
  /\ pc' = "done"
  /\ UNCHANGED <<handler, env, req, calls, upstream, minLos, loop>>

\* reserve.js 178-187: what the axios relay requires (rooms[] only)
RAMissing(q) ==
  FalsyFields(q, <<"propertyID", "startDate", "endDate", "paymentMethod">>)
  \o SelectSeq(<<"guestFirstName", "guestLastName", "guestEmail", "guestCountry">>,
               LAMBDA f : f \notin q.has)
  \o (IF Len(q.rooms) = 0 THEN <<"rooms[0]">> ELSE <<>>)

\* reserve.js 220-223: Number(r.adults) must be a positive number
RAAdultsThrow(q) ==
  \E i \in 1..Len(q.rooms) : q.rooms[i].adults.t # "num" \/ q.rooms[i].adults.v <= 0

\* res.status(code).json({ success: false, error })
RAFail(status, message) ==
  Response(status, {"success", "error"}, FALSE, FALSE, Reason(message), 0)

\* reserve.js 158-246: the axios relay up to its call; a body that arrives as
\* a string is parsed with JSON.parse, which throws when it is malformed
RACheck ==
  /\ handler = "RA" /\ pc = "start"
  /\ IF req.method = "OPTIONS" THEN RelayReject(Response(204, {}, FALSE, FALSE, Reason(""), 0))
     ELSE IF req.method # "POST" THEN RelayReject(RAFail(405, "Use POST."))
     ELSE IF req.contentType # "application/json"
     THEN RelayReject(RAFail(415, "Send JSON (application/json)."))
     ELSE IF req.contentType = "application/json, malformed"
     THEN RelayReject(RAFail(500, "Unexpected token"))
     ELSE IF Len(RAMissing(req)) > 0 THEN RelayReject(RelayMissing(RAMissing(req), "error"))
     ELSE IF req.startDate.k # "ymd" \/ req.endDate.k # "ymd"
     THEN RelayReject(RAFail(400, "Dates must be YYYY-MM-DD."))
     ELSE IF req.endDate.d <= req.startDate.d
     THEN RelayReject(RAFail(400, "endDate must be after startDate."))
     ELSE IF RAAdultsThrow(req)
     THEN RelayReject(RAFail(500, "rooms[i].adults must be a positive number"))
     ELSE RelayCall
  /\ UNCHANGED <<handler, env, req, minLos, loop>>

\* reserve.js 238-259: validateStatus: () => true, so only a network failure throws
RAReceive ==
  /\ handler = "RA" /\ pc = "await"
  /\ LET a == upstream
     IN resp' = Send(
          IF a.kind = "netfail" THEN RAFail(500, "Network Error")
          ELSE IF a.status < 200 \/ a.status >= 300 \/ (a.kind = "json" /\ ~a.success)
          THEN Response(a.status, {"success", "error", "cloudbeds"}, FALSE, FALSE,
                        Reason(MessageOr(a, "Cloudbeds returned an error.")), 0)
          ELSE Response(200, {"success", "data"}, TRUE, FALSE, Reason(""), 0))
  /\ pc' = "done"
  /\ UNCHANGED <<handler, env, req, calls, upstream, minLos, loop>>

\* reserve.js 308-327: rooms[] mapped, or the single-room fields when any is set
RSRooms(q) ==
  IF Len(q.rooms) > 0 THEN q.rooms
  ELSE IF q.top.roomTypeID \/ q.top.rateID \/ (q.top.adults.t = "num" /\ q.top.adults.v # 0)
  THEN <<q.top>>
  ELSE <<>>

\* reserve.js 330-344 (no date normalisation; the rate id is optional)
RSMissing(q) ==
  LET rs == RSRooms(q)
  IN FalsyFields(q, <<"propertyID", "startDate", "endDate">>)
     \o SelectSeq(<<"guestFirstName", "guestLastName", "guestEmail", "guestCountry">>,
                  LAMBDA f : f \notin q.has)
     \o (IF Len(rs) = 0 THEN <<"rooms[0]">> ELSE <<>>)
     \o (IF Len(rs) > 0 /\ ~rs[1].roomTypeID THEN <<"rooms[i].roomTypeID">> ELSE <<>>)
     \o (IF Len(rs) > 0 /\ numOr(rs[1].adults, 2) < 1 THEN <<"rooms[i].adults">> ELSE <<>>)

\* reserve.js 270-384: the second multipart relay up to its call
RSCheck ==
  /\ handler = "RS" /\ pc = "start"
  /\ IF req.method = "GET"
     THEN RelayReject(Response(200, {"ok", "message"}, FALSE, FALSE,
                               Reason("Cloudbeds reserve relay live"), 0))
     ELSE IF req.method # "POST" THEN RelayReject(RelayFail(405, "Method Not Allowed"))
     ELSE IF ~env.apiKey[1] THEN RelayReject(RelayFail(500, "Missing CLOUDBEDS_API_KEY env"))
     ELSE IF Len(RSMissing(req)) > 0 THEN RelayReject(RelayMissing(RSMissing(req), "message"))
     ELSE RelayCall
  /\ UNCHANGED <<handler, env, req, minLos, loop>>

\* reserve.js 380-408
RSReceive ==
  /\ handler = "RS" /\ pc = "await"
  /\ resp' = IF upstream.kind = "netfail" THEN RelayFail(500, "fetch failed")
             ELSE RelayPass(upstream, {"_endpoint", "_sentPreview"})
  /\ pc' = "done"
  /\ UNCHANGED <<handler, env, req, calls, upstream, minLos, loop>>

\* part_008 1-33: the url-encoded relay sends String(field) of whatever the
\* body carries; it checks the method only
RUCheck ==
  /\ handler = "RU" /\ pc = "start"
  /\ IF req.method # "POST" THEN RelayReject(RelayFail(405, "Method Not Allowed"))
     ELSE RelayCall
  /\ UNCHANGED <<handler, env, req, minLos, loop>>

\* part_008 35-39: r.json().catch(() => ({})), then res.status(r.status).json(data)
RUReceive ==
  /\ handler = "RU" /\ pc = "await"
  /\ resp' = IF upstream.kind = "netfail" THEN RelayFail(500, "fetch failed")
             ELSE RelayPass(upstream, {})
  /\ pc' = "done"
  /\ UNCHANGED <<handler, env, req, calls, upstream, minLos, loop>>

(***************************************************************************)
(* api/can-book.js, first handler: asks getAvailableRoomTypes, trying the  *)
(* endpoint variants in turn. The source of the handler ends after the     *)
(* list is normalised (line 107); the model covers it up to there.         *)
(***************************************************************************)
\* bases.length * routes.length
CBVariants == 8

\* function ymd(v): the leading YYYY-MM-DD of the value, or ''
ymd(v) ==
  CASE v.k = "ymd" -> v.d
    [] v.k = "iso" -> v.d
    [] v.k = "badcal" -> BadCal
    [] OTHER -> NoDate

\* new Date(endDate) <= new Date(startDate)
CBNotAfter(endDate, startDate) ==
  IF endDate = BadCal \/ startDate = BadCal THEN FALSE ELSE endDate <= startDate

\* lines 33-36
CBMissing(q) ==
  (IF q.propertyID = "" THEN <<"propertyID">> ELSE <<>>)
  \o (IF ymd(q.startDate) = NoDate THEN <<"startDate">> ELSE <<>>)
  \o (IF ymd(q.endDate) = NoDate THEN <<"endDate">> ELSE <<>>)

\* const r = await fetch(url, ...) on the variant number v
CBFetch(v) ==
  /\ pc' = "await" /\ calls' = calls + 1 /\ upstream' = HttpAnswer(200, TRUE, "")
  /\ loop' = Loop(<<>>, v, <<>>, <<>>, <<>>) /\ resp' = resp

\* lines 14-68: method, key, required fields, date order, the first variant
CBCheck ==
  /\ handler = "CB" /\ pc = "start"
  /\ IF req.method # "GET"
     THEN RelayReject(RelayFail(405, "Use GET.")) /\ loop' = loop
     ELSE IF ~env.apiKey[1]
     THEN RelayReject(RelayFail(500, "Missing CLOUDBEDS_API_KEY env")) /\ loop' = loop
     ELSE IF Len(CBMissing(req)) > 0
     THEN RelayReject(RelayMissing(CBMissing(req), "message")) /\ loop' = loop
     ELSE IF CBNotAfter(ymd(req.endDate), ymd(req.startDate))
     THEN RelayReject(RelayFail(400, "endDate must be after startDate.")) /\ loop' = loop
     ELSE CBFetch(1)
  /\ UNCHANGED <<handler, env, req, minLos>>

\* lines 68-97: the answer to variant loop.i; a 404 moves on to the next
\* variant, and after the last one to the 502
CBReceive ==
  /\ handler = "CB" /\ pc = "await"
  /\ LET a == upstream
     IN IF a.status = 404 /\ loop.i < CBVariants THEN CBFetch(loop.i + 1)
        ELSE /\ pc' = "done" /\ UNCHANGED <<calls, upstream, loop>>
             /\ resp' =
                  IF a.status = 404
                  THEN RelayFail(502, "Availability endpoint not found (404 on all variants).")
                  ELSE IF a.status < 200 \/ a.status >= 300 \/ (a.kind = "json" /\ ~a.success)
                  THEN Response(a.status, {"success", "message", "cloudbeds", "_endpoint"},
                                FALSE, FALSE,
                                Reason(MessageOr(a, "Cloudbeds returned an error.")), 0)
                  ELSE Response(200, {"success", "canBook", "reason", "_endpoint", "raw"},
                                TRUE, FALSE,
                                Reason("Could not read availability list from Cloudbeds."), 0)
  /\ UNCHANGED <<handler, env, req, minLos>>

(***************************************************************************)
(* api/check-availability.js, second handler: { success, available,        *)
(* reason } from getAvailableRoomTypes. env.apiKey[1] stands for           *)
(* CLOUDBEDS_API_TOKEN here.                                               *)
(***************************************************************************)
RoomType(av) == [availableRooms |-> av, isNull |-> FALSE]

\* a null entry of the list
NullType == [availableRooms |-> Undef, isNull |-> TRUE]

\* a JSON body whose data is a list of room types
RoomTypesAnswer(types) ==
  [HttpAnswer(200, TRUE, "") EXCEPT !.dataIsArray = TRUE, !.roomTypes = types]

\* res.status(code).json({ success, available, reason, ... })
CAVerdict(status, success, available, reason) ==
  Response(status, {"success", "available", "reason"}, success, available, Reason(reason), 0)

\* lines 127-129
CAMissing(q) ==
  (IF ymd(q.startDate) = NoDate THEN <<"startDate">> ELSE <<>>)
  \o (IF ymd(q.endDate) = NoDate THEN <<"endDate">> ELSE <<>>)

\* lines 178-181: some room type has more than zero available units
CAHasAny(list) == \E i \in 1..Len(list) : toInt(list[i].availableRooms, 0) > 0

\* lines 114-148: method, token, dates, then the call
CACheck ==
  /\ handler = "CA" /\ pc = "start"
  /\ IF req.method # "GET" THEN RelayReject(RelayFail(405, "Use GET."))
     ELSE IF ~env.apiKey[1] THEN RelayReject(RelayFail(500, "Missing CLOUDBEDS_API_TOKEN"))
     ELSE IF Len(CAMissing(req)) > 0 THEN RelayReject(RelayMissing(CAMissing(req), "message"))
     ELSE IF CBNotAfter(ymd(req.endDate), ymd(req.startDate))
     THEN RelayReject(RelayFail(400, "endDate must be after startDate"))
     ELSE RelayCall
  /\ UNCHANGED <<handler, env, req, minLos, loop>>

\* lines 147-192: the answer arrives
CAReceive ==
  /\ handler = "CA" /\ pc = "await"
  /\ LET a == upstream
     IN resp' = Send(
          IF a.kind = "netfail" THEN CAVerdict(500, FALSE, FALSE, "fetch failed")
          ELSE IF ~a.httpOk \/ (a.kind = "json" /\ ~a.success)
          THEN CAVerdict(a.status, FALSE, FALSE, MessageOr(a, "Cloudbeds error"))
          ELSE IF ~(a.kind = "json" /\ a.dataIsArray)
          THEN CAVerdict(200, TRUE, FALSE, "No room-types list in Cloudbeds response.")
          ELSE IF CAHasAny(a.roomTypes)
          THEN CAVerdict(200, TRUE, TRUE, "At least one room type has availability.")
          ELSE CAVerdict(200, TRUE, FALSE, "No available room types for these dates."))
  /\ pc' = "done"
  /\ UNCHANGED <<handler, env, req, calls, upstream, minLos, loop>>

(***************************************************************************)
(* api/check-availability.js, first handler: the variant that sums the     *)
(* counts. env.apiKey[1] is CLOUDBEDS_API_KEY.                             *)
(***************************************************************************)
\* summary.reduce((sum, s) => sum + Math.max(0, s.availableRooms), 0)
RECURSIVE CSTotal(_)
CSTotal(list) ==
  IF Len(list) = 0 THEN 0
  ELSE (IF toNum(Head(list).availableRooms, 0) > 0
        THEN toNum(Head(list).availableRooms, 0) ELSE 0) + CSTotal(Tail(list))

\* list.map(rt => ... String(rt.roomTypeID ?? rt.id ?? "") ...): rt.roomTypeID
\* of a null entry is a TypeError
CSMapThrows(list) == \E i \in 1..Len(list) : list[i].isNull

\* res.status(400).json({ success:false, available:false, reason:`Missing: ...` })
CSMissing(names) ==
  [CAVerdict(400, FALSE, FALSE, "Missing: ...") EXCEPT !.missing = names]

\* lines 9-51: method, dates, credentials, then the call
CSCheck ==
  /\ handler = "CS" /\ pc = "start"
  /\ IF req.method # "GET" THEN RelayReject(RelayFail(405, "Use GET."))
     ELSE IF Len(CAMissing(req)) > 0 THEN RelayReject(CSMissing(CAMissing(req)))
     ELSE IF CBNotAfter(ymd(req.endDate), ymd(req.startDate))
     THEN RelayReject(CAVerdict(400, FALSE, FALSE, "endDate must be after startDate"))
     ELSE IF ~env.apiKey[1]
     THEN RelayReject(CAVerdict(500, FALSE, FALSE, "No credentials set."))
     ELSE RelayCall
  /\ UNCHANGED <<handler, env, req, minLos, loop>>

\* lines 51-104: the answer arrives
CSReceive ==
  /\ handler = "CS" /\ pc = "await"
  /\ LET a == upstream
     IN resp' = Send(
          IF a.kind = "netfail" THEN CAVerdict(500, FALSE, FALSE, "fetch failed")
          ELSE IF ~a.httpOk \/ (a.kind = "json" /\ ~a.success)
          THEN CAVerdict(a.status, FALSE, FALSE, MessageOr(a, "Cloudbeds error"))
          ELSE IF ~(a.kind = "json" /\ a.dataIsArray)
          THEN CAVerdict(200, TRUE, FALSE, "No room-types array in Cloudbeds response.")
          ELSE IF CSMapThrows(a.roomTypes)
          THEN CAVerdict(500, FALSE, FALSE, "Cannot read properties of null")
          ELSE IF CSTotal(a.roomTypes) > 0
          THEN CAVerdict(200, TRUE, TRUE, "At least one room type has availability.")
          ELSE CAVerdict(200, TRUE, FALSE, "All room types show 0 available rooms."))
  /\ pc' = "done"
  /\ UNCHANGED <<handler, env, req, calls, upstream, minLos, loop>>

(***************************************************************************)
(* Inputs: requests and upstream answers.                                  *)
(***************************************************************************)
RawDate(k, d) == [k |-> k, d |-> d]

\* propertyID, provider, ratePlanId, roomTypeId: "" when the request carries
\* none; fallback: toBool(src.fallback, true)
Request(sd, ed, pid, slot, fb) ==
  [startDate |-> sd, endDate |-> ed, propertyID |-> pid, provider |-> slot,
   fallback |-> fb, ratePlanId |-> "", roomTypeId |-> "", desiredPropertyID |-> "",
   method |-> "GET", roomTypeID |-> "", roomTypeName |-> <<>>]

\* process.env: for slots 1..3, whether CLOUDBEDS_API_KEY[_n] is set and the
\* values of CLOUDBEDS_PROPERTY_ID[_n] and CLOUDBEDS_BOOKING_ID[_n] ("" when unset)
Env(keys, pids, bids) == [apiKey |-> keys, propertyID |-> pids, bookingId |-> bids]

FullEnv == Env(<<TRUE, TRUE, TRUE>>, <<"P1", "P2", "P3">>, <<"B1", "B2", "B3">>)

\* well-formed stays: check-in on day 1, check-out on a later day
StayRequests ==
  {Request(RawDate("ymd", 1), RawDate("ymd", co), "P1", "", FALSE) : co \in 2..MaxDay}

\* the unremarkable nightly record of a day: bookable, priced, no restriction
CleanRec(d) == Rec(d, Num(1), FALSE, FALSE, Num(1), Num(100))

\* in how many fields a record departs from the unremarkable one
Departures(r) ==
  (IF r.date = NoDate THEN 1 ELSE 0) + (IF r.minLos = Num(1) THEN 0 ELSE 1)
  + (IF r.closedToArrival THEN 1 ELSE 0) + (IF r.closedToDeparture THEN 1 ELSE 0)
  + (IF r.roomsAvailable = Num(1) THEN 0 ELSE 1) + (IF r.rate = Num(100) THEN 0 ELSE 1)

\* records with every field present: each rule can fail, alone or with others
RuleRecs ==
  {Rec(d, ml, cta, ctd, ra, rt) :
     d \in Days, ml \in {Num(1), Num(0), Num(2), Num(MaxDay)},
     cta \in BOOLEAN, ctd \in BOOLEAN,
     ra \in {Num(1), Num(0)}, rt \in {Num(100), Num(0)}}

\* records with absent, null, zero or negative fields
DefectRecs ==
  {Rec(d, ml, FALSE, FALSE, ra, rt) :
     d \in Days \cup {NoDate}, ml \in {Num(1), Undef, Num(2)},
     ra \in {Num(1), Undef, Num(0 - 1)},
     rt \in {Num(100), Undef, Null, Num(0), Num(0 - 5)}}
  \cup {NullRec}

\* in how many fields the records of a list depart from the unremarkable
RECURSIVE TotalDepartures(_)
TotalDepartures(ds) ==
  IF Len(ds) = 0 THEN 0 ELSE Departures(Head(ds)) + TotalDepartures(Tail(ds))

\* upstream answers that are no list of plans: fetch rejects; the body is no
\* JSON; an HTTP error status; success:false; data is no array; data is empty;
\* the first plan's roomRateDetailed is no array
FailureAnswers ==
  {Answer("netfail", FALSE, FALSE, FALSE, <<>>),
   Answer("nonjson", TRUE, FALSE, FALSE, <<>>),
   Answer("json", FALSE, TRUE, TRUE, <<Plan(TRUE, <<CleanRec(1)>>)>>),
   Answer("json", TRUE, FALSE, TRUE, <<Plan(TRUE, <<CleanRec(1)>>)>>),
   Answer("json", TRUE, TRUE, FALSE, <<>>),
   Answer("json", TRUE, TRUE, TRUE, <<>>),
   Answer("json", TRUE, TRUE, TRUE, <<Plan(FALSE, <<>>)>>)}

\* the answer is a list of plans whose first plan carries a list of records
IsPlanList(a) ==
  /\ a.kind = "json" /\ a.httpOk /\ a.success /\ a.dataIsArray
  /\ Len(a.plans) > 0 /\ a.plans[1].rrdIsArray

InitVar ==
  /\ pc = "start" /\ upstream = NoAnswer /\ calls = 0 /\ minLos = 0
  /\ resp = NoResponse /\ loop = NoLoop

(***************************************************************************)
(* The provider (Cloudbeds getRatePlans) while a call is in flight: it     *)
(* composes a list of nightly records of R, or fails.                      *)
(***************************************************************************)
ProviderAddsNight(R) ==
  /\ pc = "await" /\ IsPlanList(upstream)
  /\ Len(upstream.plans[1].details) < MaxLen
  /\ \E r \in R :
       /\ TotalDepartures(upstream.plans[1].details) + Departures(r) <= MaxDepart
       /\ upstream' = OkAnswer(Append(upstream.plans[1].details, r))
  /\ UNCHANGED <<handler, env, req, pc, calls, minLos, resp, loop>>

ProviderFails ==
  /\ pc = "await" /\ upstream = OkAnswer(<<>>)
  /\ upstream' \in FailureAnswers \ {upstream}
  /\ UNCHANGED <<handler, env, req, pc, calls, minLos, resp, loop>>

\* the provider refuses the call with one of A: an error status or
\* success:false, with or without a message
ProviderRefuses(A) ==
  /\ pc = "await" /\ upstream = OkAnswer(<<>>)
  /\ upstream' \in A
  /\ UNCHANGED <<handler, env, req, pc, calls, minLos, resp, loop>>

\* the provider answers one of a link builder's calls to another property
ProviderAnswersOther(A) ==
  /\ pc = "awaitAlt" /\ upstream = OkAnswer(<<>>)
  /\ upstream' \in A \ {upstream}
  /\ UNCHANGED <<handler, env, req, pc, calls, minLos, resp, loop>>

\* the provider adds one of the rate plans P to the list of its answer
ProviderAddsPlan(P) ==
  /\ pc = "await" /\ IsPlanList(upstream) /\ Len(upstream.plans) <= MaxPlans
  /\ \E pl \in P : upstream' = [upstream EXCEPT !.plans = Append(@, pl)]
  /\ UNCHANGED <<handler, env, req, pc, calls, minLos, resp, loop>>

\* the provider quotes an aggregate roomRate, one of Q, for its first plan
ProviderQuotes(Q) ==
  /\ pc = "await" /\ IsPlanList(upstream) /\ upstream.plans[1].roomRate = Undef
  /\ \E q \in Q : upstream' = [upstream EXCEPT !.plans[1].roomRate = q]
  /\ UNCHANGED <<handler, env, req, pc, calls, minLos, resp, loop>>

\* Cloudbeds answers a relayed call: with one of A, in place of a plain 200
CloudbedsAnswers(A) ==
  /\ pc = "await" /\ upstream = HttpAnswer(200, TRUE, "")
  /\ upstream' \in A \ {upstream}
  /\ UNCHANGED <<handler, env, req, pc, calls, minLos, resp, loop>>

(***************************************************************************)
(* Specifications.                                                         *)
(***************************************************************************)
\* only slot 1 has an API key; CLOUDBEDS_BOOKING_ID is set
OneEnv == Env(<<TRUE, FALSE, FALSE>>, <<"P1", "", "">>, <<"B1", "", "">>)

\* no API key at all
NoKeyEnv == Env(<<FALSE, FALSE, FALSE>>, <<"P1", "", "">>, <<"B1", "", "">>)

\* an invocation of one of the handlers H, configured by one of E, on one of Q
InitOf(H, E, Q) == handler \in H /\ env \in E /\ req \in Q /\ InitVar

\* the {valid, reason} handler and the desired-first link builder on
\* well-formed stays and fully populated records
InitRules == InitOf({"VR", "TP"}, {FullEnv}, StayRequests)

NextRules ==
  \/ VRCheck \/ VRReceive
  \/ TPCheck \/ TPDesiredReceive
  \/ ProviderAddsNight(RuleRecs)

SpecRules == InitRules /\ [][NextRules]_vars

\* the two handlers that answer { valid, reason } with a minimum-stay reason
\* get-reservations.js never reaches its call: there upstream is, from the
\* start, what the provider holds for the stay and would have answered
HeldAnswers == {OkAnswer(<<Rec(1, Num(ml), FALSE, FALSE, Num(1), Num(100))>>) : ml \in {1, MaxDay}}

InitMinStay ==
  /\ handler \in {"VR", "GR"} /\ env = FullEnv /\ req \in StayRequests
  /\ pc = "start" /\ calls = 0 /\ minLos = 0 /\ resp = NoResponse /\ loop = NoLoop
  /\ upstream \in IF handler = "GR" THEN HeldAnswers ELSE {NoAnswer}

NextMinStay == VRCheck \/ VRReceive \/ GRHandle \/ ProviderAddsNight(RuleRecs)

SpecMinStay == InitMinStay /\ [][NextMinStay]_vars

\* the {valid, reason} handler and computeWindowTotal of the price handler
InitDeparture == InitOf({"VR", "PH"}, {FullEnv}, StayRequests)

NextDeparture == VRCheck \/ VRReceive \/ PHCheck \/ PHReceive \/ ProviderAddsNight(RuleRecs)

SpecDeparture == InitDeparture /\ [][NextDeparture]_vars

\* the {valid, reason} handler and the multi-provider link builder
InitAvail == InitOf({"VR", "MP"}, {OneEnv}, StayRequests)

NextAvail == VRCheck \/ VRReceive \/ MPCheck \/ MPReceive \/ ProviderAddsNight(RuleRecs)

SpecAvail == InitAvail /\ [][NextAvail]_vars

\* the simple verdict handler on fully populated records
InitSimple == InitOf({"SV"}, {FullEnv}, StayRequests)

NextSimple == SVCheck \/ SVReceive \/ ProviderAddsNight(RuleRecs)

SpecSimple == InitSimple /\ [][NextSimple]_vars

\* records that are unremarkable but for their rate: absent, null, zero, negative
RateRecs ==
  {Rec(d, Num(1), FALSE, FALSE, Num(1), rt) :
     d \in Days, rt \in {Num(100), Undef, Null, Num(0), Num(0 - 5)}}

\* the two stay-verdict variants of get-reservation.js on such records
InitRates == InitOf({"SV", "VR"}, {FullEnv}, StayRequests)

NextRates == SVCheck \/ SVReceive \/ VRCheck \/ VRReceive \/ ProviderAddsNight(RateRecs)

SpecRates == InitRates /\ [][NextRates]_vars

\* the {valid, reason} handler on well-formed stays and every upstream outcome,
\* records with absent, null, zero and negative fields included
InitRobust == InitOf({"VR"}, {FullEnv}, StayRequests)

NextRobust == VRCheck \/ ProviderAddsNight(DefectRecs) \/ ProviderFails \/ VRReceive

SpecRobust == InitRobust /\ [][NextRobust]_vars

\* requests whose dates are absent, unparseable text, ISO timestamps, no
\* calendar dates ("2025-13-01"), or in the wrong order; a missing API key
AnyRawDates ==
  {RawDate("absent", 0), RawDate("text", 0), RawDate("badcal", 0), RawDate("iso", 1)}
  \cup {RawDate("ymd", d) : d \in Days}

AnyRequests ==
  {Request(sd, ed, "P1", "", FALSE) : sd \in AnyRawDates, ed \in AnyRawDates}

CleanRecs == {CleanRec(d) : d \in Days}

\* every request to the handlers that check their dates before calling
\* upstream, answered with unremarkable records or with a failure
InitInputs == InitOf({"VR", "MP", "SP"}, {OneEnv, NoKeyEnv}, AnyRequests)

NextInputs ==
  \/ VRCheck \/ VRReceive
  \/ MPCheck \/ MPReceive
  \/ SPCheck \/ SPReceive
  \/ ProviderAddsNight(CleanRecs) \/ ProviderFails

SpecInputs == InitInputs /\ [][NextInputs]_vars

\* the desired-first link builder with fallback, each call answered with a
\* bookable night, an incomplete list or a failure
AltAnswers ==
  {OkAnswer(<<CleanRec(1)>>), OkAnswer(<<CleanRec(MaxDay)>>),
   Answer("netfail", FALSE, FALSE, FALSE, <<>>)}

LinkRequests ==
  {Request(RawDate("ymd", 1), RawDate("ymd", 2), pid, slot, fb) :
     pid \in {"P1", "P3", ""}, slot \in {"", "2"}, fb \in BOOLEAN}

InitLinks == InitOf({"TP"}, {FullEnv, OneEnv}, LinkRequests)

NextLinks ==
  \/ TPCheck \/ TPDesiredReceive \/ TPAltReceive
  \/ ProviderAddsNight(CleanRecs) \/ ProviderFails \/ ProviderAnswersOther(AltAnswers)

SpecLinks == InitLinks /\ [][NextLinks]_vars

\* slot 2 has an API key but no CLOUDBEDS_PROPERTY_ID_2
MixedEnv == Env(<<TRUE, TRUE, TRUE>>, <<"P1", "", "P3">>, <<"B1", "B2", "B3">>)

\* a one-night stay, with and without fallback, with and without a preferred slot
MultiRequests ==
  {Request(RawDate("ymd", 1), RawDate("ymd", 2), "P1", slot, fb) :
     slot \in {"", "2"}, fb \in BOOLEAN}

\* the arrival night, bookable or with a minimum stay of two nights
MultiRecs == {CleanRec(1), Rec(1, Num(2), FALSE, FALSE, Num(1), Num(100))}

\* the multi-provider link builder over up to three providers, each call
\* answered with a list of such records or with a failure
InitMulti == InitOf({"MP"}, {FullEnv, MixedEnv}, MultiRequests)

NextMulti == MPCheck \/ MPReceive \/ ProviderAddsNight(MultiRecs) \/ ProviderFails

SpecMulti == InitMulti /\ [][NextMulti]_vars

\* refusals of getRatePlans: error statuses and success:false, with a message
\* and without one
Refusals ==
  {HttpAnswer(500, TRUE, "Internal error"), HttpAnswer(401, FALSE, "Invalid API key"),
   HttpAnswer(200, FALSE, "Property not found"), HttpAnswer(404, TRUE, ""),
   HttpAnswer(200, FALSE, "")}

\* the handlers that look up rate plans, each call answered with bookable
\* nights or refused
InitRefusal == InitOf({"SV", "VR", "TP"}, {FullEnv}, StayRequests)

NextRefusal ==
  \/ SVCheck \/ SVReceive \/ VRCheck \/ VRReceive \/ TPCheck \/ TPDesiredReceive
  \/ ProviderAddsNight(CleanRecs) \/ ProviderRefuses(Refusals)

SpecRefusal == InitRefusal /\ [][NextRefusal]_vars

\* what getAvailableRoomTypes answers to can-book.js: 404, another error
\* status, success:false, a body that is no JSON
AvailabilityAnswers ==
  {HttpAnswer(404, TRUE, ""), HttpAnswer(500, TRUE, "Internal error"),
   HttpAnswer(200, FALSE, "Property not found"),
   Answer("nonjson", TRUE, FALSE, FALSE, <<>>)}

\* requests of can-book.js: any dates, with and without propertyID, GET or not
AvailabilityRequests ==
  {[Request(sd, ed, pid, "", FALSE) EXCEPT !.method = m] :
     sd \in AnyRawDates, ed \in AnyRawDates, pid \in {"P1", ""}, m \in {"GET", "POST"}}

\* the single-provider handlers whose upstream call can be refused
InitRetry ==
  /\ handler \in {"VR", "CB"} /\ env \in {OneEnv, NoKeyEnv} /\ InitVar
  /\ req \in IF handler = "CB" THEN AvailabilityRequests ELSE StayRequests

NextRetry ==
  \/ VRCheck \/ VRReceive \/ CBCheck \/ CBReceive
  \/ ProviderRefuses(Refusals) \/ CloudbedsAnswers(AvailabilityAnswers)

SpecRetry == InitRetry /\ [][NextRetry]_vars

\* slots 1 and 2 are configured; slot 3 inherits CLOUDBEDS_BOOKING_ID only
TwoEnv == Env(<<TRUE, TRUE, FALSE>>, <<"P1", "P2", "">>, <<"B1", "B2", "">>)

\* two invocations, each on a one-night stay with its own fallback and
\* preferred slot; a call is answered with a bookable night, left with an
\* empty list of nights, or rejected
PairAnswers == {OkAnswer(<<CleanRec(1)>>), Answer("netfail", FALSE, FALSE, FALSE, <<>>)}

InitPair ==
  /\ handler = "MP2" /\ env = TwoEnv
  /\ req \in MultiRequests \X MultiRequests
  /\ pc = <<"start", "start">> /\ upstream = <<NoAnswer, NoAnswer>>
  /\ calls = <<0, 0>> /\ minLos = <<0, 0>>
  /\ resp = <<NoResponse, NoResponse>> /\ loop = <<NoLoop, NoLoop>>

NextPair ==
  \E i \in Invocations :
    MP2Check(i) \/ MP2Receive(i) \/ MP2ProviderAnswers(i, PairAnswers)

SpecPair == InitPair /\ [][NextPair]_vars

\* the body fields of a booking besides its dates and rooms
BookingFields ==
  {"propertyID", "guestFirstName", "guestLastName", "guestEmail", "guestCountry",
   "paymentMethod"}

Rooms == {Room(t, r, a) : t \in BOOLEAN, r \in BOOLEAN, a \in {Undef, Num(0), Num(2)}}

\* a room in rooms[], or in the top-level fields, or none
RoomForms ==
  {<<(<<r>>), NoRoom>> : r \in Rooms} \cup {<<(<<>>), t>> : t \in Rooms \cup {NoRoom}}

\* POSTed bookings with at most one of the fields left out, any dates, and one
\* room given in rooms[] or by the top-level fields, or none; other methods
Bookings ==
  {Booking("POST", "application/json", BookingFields \ M, sd, ed, rf[1], rf[2]) :
     M \in {{}} \cup {{f} : f \in BookingFields},
     sd \in {RawDate("absent", 0), RawDate("text", 0), RawDate("ymd", 1)},
     ed \in {RawDate("absent", 0), RawDate("ymd", 1), RawDate("ymd", 2)},
     rf \in RoomForms}
  \cup {Booking(m, ct, BookingFields, RawDate("ymd", 1), RawDate("ymd", 2),
                <<Room(TRUE, TRUE, Num(2))>>, NoRoom) :
          m \in {"GET", "OPTIONS", "POST"},
          ct \in {"application/json", "application/json, malformed", "text/plain"}}

\* what postReservation answers: an error status with or without a message,
\* success:false, a body that is no JSON, a rejected fetch
BookingAnswers ==
  {HttpAnswer(400, FALSE, "Invalid room type"), HttpAnswer(500, TRUE, ""),
   HttpAnswer(200, FALSE, "Room not available"),
   Answer("nonjson", TRUE, FALSE, FALSE, <<>>),
   Answer("netfail", FALSE, FALSE, FALSE, <<>>)}

\* the four relays of a booking
InitBooking == InitOf({"RM", "RA", "RS", "RU"}, {OneEnv, NoKeyEnv}, Bookings)

NextBooking ==
  \/ RMCheck \/ RMReceive \/ RACheck \/ RAReceive
  \/ RSCheck \/ RSReceive \/ RUCheck \/ RUReceive
  \/ CloudbedsAnswers(BookingAnswers)

SpecBooking == InitBooking /\ [][NextBooking]_vars

\* the desired-first link builder on requests whose check-out is a calendar
\* date or a date string that is none ("2025-13-01")
FallbackRequests ==
  LinkRequests
  \cup {Request(RawDate("ymd", 1), RawDate("badcal", 0), pid, "", fb) :
          pid \in {"P1", "P3"}, fb \in BOOLEAN}

InitFallback == InitOf({"TP"}, {FullEnv, OneEnv}, FallbackRequests)

SpecFallback == InitFallback /\ [][NextLinks]_vars

\* bookings for the axios relay: complete or without e-mail, well-formed or
\* malformed dates, no room, a room, a room without adults; other methods
\* and content types
FewBookings ==
  {Booking("POST", "application/json", BookingFields \ M, sd, ed, rs, NoRoom) :
     M \in {{}, {"guestEmail"}},
     sd \in {RawDate("ymd", 1), RawDate("text", 0)},
     ed \in {RawDate("ymd", 2), RawDate("ymd", 1)},
     rs \in {<<>>, <<Room(TRUE, TRUE, Num(2))>>, <<Room(TRUE, TRUE, Undef)>>}}
  \cup {Booking(m, ct, BookingFields, RawDate("ymd", 1), RawDate("ymd", 2),
                <<Room(TRUE, TRUE, Num(2))>>, NoRoom) :
          m \in {"GET", "OPTIONS", "POST"},
          ct \in {"application/json", "application/json, malformed", "text/plain"}}

\* lists of room types: empty, none available, one available
RoomTypeAnswers ==
  {RoomTypesAnswer(<<>>), RoomTypesAnswer(<<RoomType(Num(0))>>),
   RoomTypesAnswer(<<RoomType(Undef), RoomType(Num(2))>>)}

\* entries of a room-types list: a count that is positive, zero, negative,
\* missing, null or no number; a null entry
TypeEntries ==
  {RoomType(av) : av \in {Num(2), Num(0), Num(0 - 1), Undef, Null, [t |-> "text", v |-> 0]}}
  \cup {NullType}

RoomTypeLists == UNION {[1..n -> TypeEntries] : n \in 0..MaxTypes}

\* GET and POST requests with well-formed, absent and ill-ordered dates
CountRequests ==
  {[Request(sd, ed, "P1", "", FALSE) EXCEPT !.method = m] :
     sd \in {RawDate("ymd", 1), RawDate("absent", 0)},
     ed \in {RawDate("ymd", 2), RawDate("ymd", 1)}, m \in {"GET", "POST"}}

\* the two check-availability handlers on every such list
InitCount == InitOf({"CA", "CS"}, {FullEnv, NoKeyEnv}, CountRequests)

NextCount ==
  \/ CACheck \/ CAReceive \/ CSCheck \/ CSReceive
  \/ CloudbedsAnswers({RoomTypesAnswer(l) : l \in RoomTypeLists} \cup AvailabilityAnswers)

SpecCount == InitCount /\ [][NextCount]_vars

\* the desired-first link builder, the axios relay and check-availability on
\* every path: input rejection, upstream error, non-JSON body, network
\* failure, a rule that fails, success
InitAnswer ==
  /\ handler \in {"TP", "RA", "CA"} /\ env \in {FullEnv, NoKeyEnv} /\ InitVar
  /\ req \in CASE handler = "TP" -> LinkRequests
              [] handler = "RA" -> FewBookings
              [] OTHER -> AvailabilityRequests

\* the steps of the handlers: the runtime runs a handler that can go on
HandlerSteps ==
  \/ TPCheck \/ TPDesiredReceive \/ TPAltReceive
  \/ RACheck \/ RAReceive \/ CACheck \/ CAReceive

NextAnswer ==
  \/ HandlerSteps
  \/ ProviderAddsNight(CleanRecs) \/ ProviderFails \/ ProviderAnswersOther(AltAnswers)
  \/ CloudbedsAnswers(BookingAnswers \cup RoomTypeAnswers)

\* a pending fetch settles (it resolves or rejects) and the continuation runs
SpecAnswer == InitAnswer /\ [][NextAnswer]_vars /\ WF_vars(HandlerSteps)

\* a rate plan of a room type: roomTypeID, roomTypeName, aggregate roomRate
\* and nightly records
RoomPlan(id, name, roomRate, ds) ==
  [Plan(TRUE, ds) EXCEPT !.roomTypeID = id, !.roomTypeName = name, !.roomRate = roomRate]

\* plans of two room types, named "q", "qd" or not at all, for the night of
\* day 1: at 100, at 200, or sold out
RoomPlans ==
  {RoomPlan(id, name, Undef, <<Rec(1, Num(1), FALSE, FALSE, ra, rt)>>) :
     id \in {"R1", "R2"}, name \in {<<"q">>, <<"q", "d">>, <<>>},
     ra \in {Num(1)}, rt \in {Num(100), Num(200)}}
  \cup {RoomPlan(id, name, Undef, <<Rec(1, Num(1), FALSE, FALSE, Num(0), Num(100))>>) :
          id \in {"R1", "R2"}, name \in {<<"q">>, <<"q", "d">>, <<>>}}

\* one night from day 1 in property P1, the room type asked for by ID, by
\* name (in either case), by both or not at all
RoomRequests ==
  {[Request(RawDate("ymd", 1), RawDate("ymd", 2), "P1", "", FALSE)
      EXCEPT !.roomTypeID = id, !.roomTypeName = name] :
     id \in {"", "R1"}, name \in {<<>>, <<"Q">>, <<"q", "d">>}}

InitRooms == InitOf({"PH"}, {FullEnv}, RoomRequests)

NextRooms == PHCheck \/ PHReceive \/ ProviderAddsPlan(RoomPlans)

SpecRooms == InitRooms /\ [][NextRooms]_vars

\* nightly records whose minLos is an integer or a decimal string, positive,
\* zero or negative, or is missing or null
MinLosRecs ==
  {Rec(d, ml, FALSE, FALSE, Num(1), Num(100)) :
     d \in {1, 2},
     ml \in {Num(2), Num(0), Num(0 - 1), Str(2), Str(0 - 3), Undef, Null}}

\* well-formed stays, and requests that return early: no check-in, check-out
\* not after check-in
MinNightsRequests ==
  StayRequests
  \cup {Request(RawDate("absent", 0), RawDate("ymd", 2), "P1", "", FALSE),
        Request(RawDate("ymd", 2), RawDate("ymd", 1), "P1", "", FALSE)}

\* the handlers that report a minimum number of nights
InitMinNights == InitOf({"SV", "SM", "RL"}, {OneEnv, NoKeyEnv}, MinNightsRequests)

NextMinNights ==
  \/ SVCheck \/ SVReceive \/ SMCheck \/ SMReceive \/ RLCheck \/ RLReceive
  \/ ProviderAddsNight(MinLosRecs) \/ ProviderFails

SpecMinNights == InitMinNights /\ [][NextMinNights]_vars

\* nightly records that are bookable or sold out, at 100 or at 200
\* computeWindowTotal evaluated twice on what the provider composed
InitEvaluate == InitOf({"CW"}, {FullEnv}, StayRequests)

\* records on which every rule of the evaluation can fail
EvaluateRecs ==
  {Rec(d, ml, cta, ctd, ra, rt) :
     d \in Days, ml \in {Num(1), Num(2)}, cta \in BOOLEAN, ctd \in BOOLEAN,
     ra \in {Num(1), Num(0)}, rt \in {Num(100), Num(0)}}

NextEvaluate ==
  \/ CWStart \/ CWEvaluate
  \/ ProviderAddsNight(EvaluateRecs) \/ ProviderQuotes({Num(150)})

SpecEvaluate == InitEvaluate /\ [][NextEvaluate]_vars

\* the stay-verdict and link-building handlers on any list of records: empty,
\* with repeated dates, with counts that are zero or negative
SoundRecs ==
  RuleRecs \cup {Rec(d, Num(1), FALSE, FALSE, Num(0 - 1), Num(100)) : d \in Days}

InitSound == InitOf({"SV", "SP", "TP"}, {FullEnv}, StayRequests)

NextSound ==
  \/ SVCheck \/ SVReceive \/ SPCheck \/ SPReceive \/ TPCheck \/ TPDesiredReceive
  \/ ProviderAddsNight(SoundRecs)

SpecSound == InitSound /\ [][NextSound]_vars

PriceRecs ==
  {Rec(d, Num(1), FALSE, FALSE, ra, rt) :
     d \in Days, ra \in {Num(1), Num(0)}, rt \in {Num(100), Num(200)}}

\* well-formed stays, and requests that fail before the call: no property,
\* an unknown property, no check-in, check-out not after check-in; a
\* check-out that is no calendar date
PriceRequests ==
  StayRequests
  \cup {Request(RawDate("ymd", 1), RawDate("ymd", 2), pid, "", FALSE) : pid \in {"", "PX"}}
  \cup {Request(sd, ed, "P1", "", FALSE) :
          sd \in {RawDate("absent", 0), RawDate("ymd", 2)},
          ed \in {RawDate("ymd", 2), RawDate("badcal", 0)}}

InitPrice == InitOf({"GP"}, {FullEnv}, PriceRequests)

NextPrice ==
  \/ GPCheck \/ GPReceive
  \/ ProviderAddsNight(PriceRecs) \/ ProviderFails
  \/ ProviderQuotes({Num(150), Num(0), Null})

SpecPrice == InitPrice /\ [][NextPrice]_vars

(***************************************************************************)
(* What a finished invocation was asked and was answered.                  *)
(***************************************************************************)
checkin == normDate(req.startDate)
checkout == normDate(req.endDate)

\* a well-formed stay: two calendar dates, check-out after check-in
WellFormedStay == checkin \in Days /\ checkout \in Days /\ checkout > checkin

nights == checkout - checkin

Details == upstream.plans[1].details

\* a handler of H finished on a well-formed stay for which upstream holds a list
Judged(H) == handler \in H /\ pc = "done" /\ WellFormedStay /\ IsPlanList(upstream)

RecordsOn(day) == {i \in 1..Len(Details) : Details[i].date = day}

\* the record a lookup by date selects: the first one of that day
FirstOn(day) == Details[CHOOSE i \in RecordsOn(day) : \A j \in RecordsOn(day) : i <= j]

InStay(i) == Details[i].date \in checkin..(checkout - 1)

\* some night of [checkin, checkout) has no record
MissingNight == \E day \in checkin..(checkout - 1) : RecordsOn(day) = {}

SetMax(S) == CHOOSE m \in S : \A x \in S : x <= m

PositiveMinLos(I) == {toInt(Details[i].minLos, 0) : i \in I} \cap (1..1000)

ArrivalMinLos == IF RecordsOn(checkin) = {} THEN 0 ELSE toInt(FirstOn(checkin).minLos, 0)

\* "departure is closed": the record of the check-out day or of the last night
DepartureFlagged ==
  \/ RecordsOn(checkout) # {} /\ FirstOn(checkout).closedToDeparture
  \/ RecordsOn(checkout - 1) # {} /\ FirstOn(checkout - 1).closedToDeparture

ArrivalFlagged == RecordsOn(checkin) # {} /\ FirstOn(checkin).closedToArrival

\* the minLos the handlers compute: the arrival record's when positive, else
\* the largest positive one of all the records, else 1
AllRecords == 1..Len(Details)

ComputedMinLos ==
  IF ArrivalMinLos > 0 THEN ArrivalMinLos
  ELSE IF PositiveMinLos(AllRecords) # {} THEN SetMax(PositiveMinLos(AllRecords))
  ELSE 1

StayRecords == {i \in AllRecords : InStay(i)}

NoRoomsNight == \E i \in StayRecords : toInt(Details[i].roomsAvailable, 0) = 0

\* a night whose rate is missing, null, zero or negative
UnpricedNight ==
  \E i \in StayRecords : Details[i].rate.t # "num" \/ Details[i].rate.v <= 0

\* the reason a finished invocation reports: the verdict's, or the one of the
\* link builders' first attempt, or computeWindowTotal's
Reported ==
  IF handler \in {"TP", "MP", "PH"}
  THEN (IF Len(loop.results) > 0 THEN loop.results[1].reason ELSE Reason(""))
  ELSE resp.reason

IncompleteReasons ==
  {VRIncomplete, VRNoDetails, "Missing nightly rates across window", "No nightly details"}
MinStayReasons == {VRMinStay, "Minimum stay is N nights"}
ArrivalReasons == {VRNoArrival, "Closed to arrival"}
DepartureReasons == {VRNoDeparture, "Closed to departure"}
RoomsReasons == {VRNoRooms, "No availability on one or more nights"}
RateReasons == {VRNoRate, "No published rate on one or more nights"}

\* the rule the reported reason belongs to
ReportedRule ==
  CASE Reported.text \in IncompleteReasons -> "completeness"
    [] Reported.text \in MinStayReasons -> "minimum stay"
    [] Reported.text \in ArrivalReasons -> "closed to arrival"
    [] Reported.text \in DepartureReasons -> "closed to departure"
    [] Reported.text \in RoomsReasons -> "availability"
    [] Reported.text \in RateReasons -> "rate"
    [] Reported.text \in {"OK", ""} -> "none"
    [] OTHER -> "error"

\* the first rule the stay violates, in the order of the specification
FirstViolated ==
  IF MissingNight THEN "completeness"
  ELSE IF nights < ComputedMinLos THEN "minimum stay"
  ELSE IF ArrivalFlagged THEN "closed to arrival"
  ELSE IF DepartureFlagged THEN "closed to departure"
  ELSE IF NoRoomsNight THEN "availability"
  ELSE IF UnpricedNight THEN "rate"
  ELSE "none"

(***************************************************************************)
(* C1: in the {valid, reason} handler and in tryProvider of the            *)
(* desired-first link builder, the reason reported for a stay is the       *)
(* reason of the first rule it violates in the order completeness,         *)
(* minimum stay, closed to arrival, closed to departure, availability,     *)
(* rate.                                                                   *)
(***************************************************************************)
FirstViolatedRuleIsReported ==
  Judged({"VR", "TP"}) => ReportedRule = FirstViolated

(***************************************************************************)
(* C2: whenever some date of [checkin, checkout) has no record with that   *)
(* date, whatever else the list holds, the verdict is invalid with the     *)
(* incomplete-rate-data reason.                                            *)
(***************************************************************************)
MissingNightIsIncomplete ==
  (Judged({"VR", "TP"}) /\ MissingNight) => ReportedRule = "completeness"

(***************************************************************************)
(* C3 as stated: the effective minLos is the check-in record's minLos when *)
(* positive, else the largest positive minLos among the records of the     *)
(* nights of [checkin, checkout) only, else 1.                             *)
(***************************************************************************)
StayWindowMinLos ==
  IF ArrivalMinLos > 0 THEN ArrivalMinLos
  ELSE IF PositiveMinLos(StayRecords) # {} THEN SetMax(PositiveMinLos(StayRecords))
  ELSE 1

MinLosFromStayWindowOnly ==
  (Judged({"VR", "TP"}) /\ minLos # 0) => minLos = StayWindowMinLos

(***************************************************************************)
(* C3 as amended: the effective minLos is the check-in record's minLos     *)
(* when positive, else the largest positive minLos among ALL the records   *)
(* upstream returned (those outside the stay window included), else 1.     *)
(***************************************************************************)
MinLosFromAllRecords ==
  (Judged({"VR", "TP"}) /\ minLos # 0) => minLos = ComputedMinLos

\* a record outside the stay decided the minLos
MinLosFromOutsideTheStay ==
  /\ Judged({"VR", "TP"}) /\ minLos > 1
  /\ ArrivalMinLos = 0 /\ PositiveMinLos(StayRecords) = {}

(***************************************************************************)
(* C4: with a record for every night, the verdict is invalid for minimum   *)
(* stay exactly when nights < effective minLos, and the reason then cites  *)
(* that minLos.                                                            *)
(***************************************************************************)
MinStayExactlyBelowMinLos ==
  (Judged({"VR", "GR"}) /\ ~MissingNight) =>
    /\ (ReportedRule = "minimum stay") <=> (nights < ComputedMinLos)
    /\ (ReportedRule = "minimum stay") => (Reported.n = ComputedMinLos)

(***************************************************************************)
(* C5: for a stay that passes completeness, minimum stay and closed to     *)
(* arrival, the departure-closure reason is reported if and only if the    *)
(* record of the check-out day or of the last night has closedToDeparture  *)
(* set; the flag on any other night does not invalidate the stay.          *)
(***************************************************************************)
PassesUpToArrival == ~MissingNight /\ nights >= ComputedMinLos /\ ~ArrivalFlagged

DepartureClosureExactly ==
  (Judged({"VR", "PH"}) /\ PassesUpToArrival) =>
    /\ (ReportedRule = "closed to departure") <=> DepartureFlagged
    /\ (~DepartureFlagged /\ ~NoRoomsNight /\ ~UnpricedNight) => ReportedRule = "none"

\* a stay found valid although an earlier night is closed to departure
FlagOnAnotherNight ==
  /\ Judged({"VR", "PH"}) /\ PassesUpToArrival /\ ~DepartureFlagged
  /\ \E i \in AllRecords : Details[i].closedToDeparture
  /\ ReportedRule = "none"

(***************************************************************************)
(* C6: in the simple handler and in the {valid, reason} handler a stay is  *)
(* invalid whenever a night of [checkin, checkout) has a rate that is      *)
(* missing, null, zero or negative.                                        *)
(***************************************************************************)
UnpricedNightInvalidates ==
  (Judged({"SV", "VR"}) /\ UnpricedNight) => ~resp.valid

(***************************************************************************)
(* C7: for a stay that passes the earlier rules, a night with              *)
(* roomsAvailable = 0 makes the verdict invalid with the no-availability   *)
(* reason, whatever the availability of the other nights.                  *)
(***************************************************************************)
PassesUpToDeparture == PassesUpToArrival /\ ~DepartureFlagged

NoRoomsIsNoAvailability ==
  (Judged({"VR", "MP"}) /\ PassesUpToDeparture /\ NoRoomsNight) =>
    ReportedRule = "availability"

\* one night without rooms among nights with rooms
OneNightWithoutRooms ==
  /\ Judged({"VR", "MP"}) /\ PassesUpToDeparture /\ ReportedRule = "availability"
  /\ \E i, j \in StayRecords :
       /\ toInt(Details[i].roomsAvailable, 0) = 0
       /\ toInt(Details[j].roomsAvailable, 0) > 0

(***************************************************************************)
(* C8: when every night has a record, minLos <= nights, no closure flag is *)
(* set, every roomsAvailable > 0 and every rate > 0, the simple handler    *)
(* answers valid:true with minimumNightsRequiredToStay = the computed      *)
(* minLos.                                                                 *)
(***************************************************************************)
EverythingFine ==
  /\ ~MissingNight /\ ComputedMinLos <= nights
  /\ \A i \in AllRecords :
       /\ ~Details[i].closedToArrival /\ ~Details[i].closedToDeparture
       /\ Details[i].roomsAvailable.t = "num" /\ Details[i].roomsAvailable.v > 0
       /\ Details[i].rate.t = "num" /\ Details[i].rate.v > 0

SimpleVerdictValid ==
  (Judged({"SV"}) /\ EverythingFine) =>
    /\ resp.status = 200 /\ resp.valid
    /\ resp.minimumNightsRequiredToStay = ComputedMinLos

\* the example of the specification: two nights, minLos 2, valid with 2
TwoNightsAtMinLosTwo ==
  /\ Judged({"SV"}) /\ EverythingFine /\ nights = 2 /\ ComputedMinLos = 2
  /\ resp.valid /\ resp.minimumNightsRequiredToStay = 2

(***************************************************************************)
(* C9: a request whose check-out is not after its check-in, or whose       *)
(* check-in or check-out is missing or malformed, gets a negative verdict, *)
(* and no upstream call is issued for it.                                  *)
(***************************************************************************)
ErrorForms ==
  {"ERROR: Missing check-in or check-out (YYYY-MM-DD).",
   "ERROR: checkout must be after checkin.", "ERROR: checkout must be after checkin",
   "ERROR: No providers configured.", "ERROR: Unexpected server error.",
   "ERROR: slotN: reason | slotN: reason"}

NegativeVerdict ==
  IF handler = "MP" THEN resp.url.form \in ErrorForms ELSE ~resp.valid

BadDatesRejectedBeforeUpstream ==
  (handler \in {"VR", "MP", "SP"} /\ ~WellFormedStay) =>
    /\ calls = 0
    /\ pc = "done" => NegativeVerdict

(***************************************************************************)
(* C10 as stated: the {valid, reason} handler answers every upstream       *)
(* outcome with a well-formed verdict, and every defect of the answer      *)
(* (network failure, non-JSON body, data or roomRateDetailed not an array, *)
(* null records, records lacking date, rate, roomsAvailable or minLos)     *)
(* yields valid:false with a non-empty reason.                             *)
(***************************************************************************)
WellFormedVerdict ==
  /\ resp.status = 200 /\ resp.fields = {"valid", "reason"}
  /\ resp.reason.text # ""
  /\ resp.valid <=> resp.reason.text = "OK"

Lacks(v) == v.t # "num"

DefectiveRecord(r) ==
  r.date = NoDate \/ Lacks(r.rate) \/ Lacks(r.roomsAvailable) \/ Lacks(r.minLos)

AnyDefect ==
  \/ ~IsPlanList(upstream)
  \/ \E i \in AllRecords : DefectiveRecord(Details[i])

WindowRecords == {i \in AllRecords : Details[i].date # NoDate /\ InStay(i)}

InvalidatingDefect ==
  \/ ~IsPlanList(upstream)
  \/ Cardinality(WindowRecords) < nights
  \/ \E i \in WindowRecords : Lacks(Details[i].rate) \/ Lacks(Details[i].roomsAvailable)

AttemptsInPriorityOrder ==
  /\ Len(loop.results) <= Len(loop.ordered)
  /\ \A k \in 1..Len(loop.results) : loop.results[k].slot = loop.ordered[k].slot

\* a further provider is being queried
QueryInFlight == pc = "await"

(***************************************************************************)
(* C11: with fallback disabled, the multi-provider link builder tries      *)
(* providers in priority order and queries no further provider after the   *)
(* first provider that yielded a valid booking link.                       *)
(***************************************************************************)
NoQueryAfterFirstLink ==
  (handler = "MP" /\ ~req.fallback)
    => /\ AttemptsInPriorityOrder
       /\ Len(loop.links) > 0 => (~QueryInFlight /\ Len(loop.links) = 1)

(***************************************************************************)
(* C11 as amended: with fallback disabled, the multi-provider link builder *)
(* tries providers in priority order and stops at the first provider that  *)
(* fails on a reason; a provider that yields a link does not end the loop, *)
(* so every attempt before the last one yielded a link.                    *)
(***************************************************************************)
FailedAttempts == {k \in 1..Len(loop.results) : loop.results[k].reason.text # ""}

StopsAtFirstFailure ==
  (handler = "MP" /\ ~req.fallback)
    => /\ AttemptsInPriorityOrder
       /\ \A k \in FailedAttempts : k = Len(loop.results) /\ ~QueryInFlight
       /\ Len(loop.links) >= Len(loop.results) - 1

\* the first provider yielded a link, the second one was queried and failed,
\* and the third one was never tried
SecondProviderFailedAfterLink ==
  /\ handler = "MP" /\ ~req.fallback /\ pc = "done"
  /\ Len(loop.ordered) = 3 /\ Len(loop.results) = 2 /\ calls = 2
  /\ Len(loop.links) = 1 /\ FailedAttempts = {2}
  /\ resp.url.links = loop.links

(***************************************************************************)
(* C12: with fallback enabled, the multi-provider link builder attempts    *)
(* every configured provider exactly once in priority order, and when some *)
(* provider's stay passes all rules the url lists the booking links of     *)
(* exactly the providers whose stay passes, in attempt order.              *)
(***************************************************************************)
\* the stay passes the six rules on the records ds of an answer
PassesAllRules(ds) ==
  LET on(day) == {i \in 1..Len(ds) : ds[i].date = day}
      first(day) == ds[CHOOSE i \in on(day) : \A j \in on(day) : i <= j]
      stay == {i \in 1..Len(ds) : ds[i].date \in checkin..(checkout - 1)}
      positive == {toInt(ds[i].minLos, 0) : i \in 1..Len(ds)} \cap (1..1000)
      arrivalMin == toInt(first(checkin).minLos, 0)
      least == IF arrivalMin > 0 THEN arrivalMin
               ELSE IF positive # {} THEN SetMax(positive) ELSE 1
  IN /\ \A day \in checkin..(checkout - 1) : on(day) # {}
     /\ nights >= least
     /\ ~first(checkin).closedToArrival
     /\ ~(on(checkout) # {} /\ first(checkout).closedToDeparture)
     /\ ~first(checkout - 1).closedToDeparture
     /\ \A i \in stay : toInt(ds[i].roomsAvailable, 0) # 0
     /\ \A i \in stay : ds[i].rate.t = "num" /\ ds[i].rate.v > 0

\* the providers of the priority order that are fully configured and whose
\* answer, as far as it was received, passes all rules
PassingProviders ==
  {k \in 1..Len(loop.answers) :
     /\ MPConfigFault(loop.ordered[k]) = ""
     /\ IsPlanList(loop.answers[k])
     /\ PassesAllRules(loop.answers[k].plans[1].details)}

RECURSIVE LinksOf(_, _)
LinksOf(k, K) ==
  IF k > Len(loop.ordered) THEN <<>>
  ELSE (IF k \in K THEN <<loop.ordered[k].bookingId>> ELSE <<>>) \o LinksOf(k + 1, K)

EveryProviderAttemptedOnce ==
  (handler = "MP" /\ pc = "done" /\ req.fallback /\ Len(loop.ordered) > 0)
    => /\ Len(loop.results) = Len(loop.ordered)
       /\ AttemptsInPriorityOrder
       /\ PassingProviders # {}
            => /\ resp.url.form = "L || L"
               /\ resp.url.links = LinksOf(1, PassingProviders)

(***************************************************************************)
(* C13: every invocation of the multi-provider link builder responds with  *)
(* HTTP 200 and a body { success: true, url }; when providers were tried   *)
(* and none yielded a link, the url is "ERROR: " followed by one           *)
(* "slotN: reason" entry per attempted provider in attempt order (only the *)
(* first provider without fallback), each with the attempt's non-empty     *)
(* reason.                                                                 *)
(***************************************************************************)
ErrorListsEveryAttempt ==
  (handler = "MP" /\ pc = "done")
    => /\ resp.status = 200 /\ resp.fields = {"success", "url"} /\ resp.success
       /\ (Len(loop.results) > 0 /\ Len(loop.links) = 0)
            => /\ resp.url.form = "ERROR: slotN: reason | slotN: reason"
               /\ Len(resp.url.entries) = Len(loop.results)
               /\ \A k \in 1..Len(loop.results) :
                    /\ resp.url.entries[k].slot = loop.ordered[k].slot
                    /\ loop.results[k].reason.text # ""
                    /\ resp.url.entries[k].reason = loop.results[k].reason
               /\ ~req.fallback => Len(loop.results) = 1

(***************************************************************************)
(* C14: every response of the {valid, reason} handler is HTTP 200 with     *)
(* exactly the two fields valid and reason; reason is never empty, and it  *)
(* is "OK" if and only if valid is true.                                   *)
(***************************************************************************)
EveryVerdictHasTwoFields ==
  (handler = "VR" /\ pc = "done")
    => /\ resp.status = 200
       /\ resp.fields = {"valid", "reason"}
       /\ resp.reason.text # ""
       /\ (resp.reason.text = "OK") <=> resp.valid

\* a bookable stay answered { valid: true, reason: "OK" }
BookableStayAnsweredOK ==
  /\ handler = "VR" /\ pc = "done" /\ calls = 1
  /\ resp.valid /\ resp.reason.text = "OK" /\ resp.fields = {"valid", "reason"}

(***************************************************************************)
(* C15: in every reservation-creation handler, a request that lacks a      *)
(* required identifier (propertyID, start or end date, guest first or last *)
(* name, email, country, or a room with a room type) is rejected with a    *)
(* response naming the missing fields, and no postReservation call is made *)
(* for it.                                                                 *)
(***************************************************************************)
RelayHandlers == {"RM", "RA", "RS", "RU"}

LacksIdentifier ==
  \/ {"propertyID", "guestFirstName", "guestLastName", "guestEmail", "guestCountry"}
       \ req.has # {}
  \/ req.startDate.k = "absent" \/ req.endDate.k = "absent"
  \/ (\A i \in 1..Len(req.rooms) : ~req.rooms[i].roomTypeID) /\ ~req.top.roomTypeID

\* the request passes the gates that come before the field checks
Admitted ==
  /\ req.method = "POST"
  /\ handler \in {"RM", "RS"} => env.apiKey[1]
  /\ handler = "RA" => req.contentType = "application/json"

IncompleteBookingRejected ==
  (handler \in RelayHandlers /\ Admitted /\ LacksIdentifier)
    => /\ calls = 0
       /\ pc = "done" => (resp.status = 400 /\ Len(resp.missing) > 0)

(***************************************************************************)
(* C16: in every handler that looks up rate plans, when the upstream call  *)
(* returns a non-success HTTP status or success:false together with a      *)
(* message, the handler's response carries that message unchanged.         *)
(***************************************************************************)
\* the text a finished invocation surfaces: message, reason, or the reason
\* quoted in the url string
SurfacedText ==
  IF handler = "TP" THEN resp.url.reason.text ELSE resp.reason.text

UpstreamMessageSurfaced ==
  (handler \in {"SV", "VR", "TP"} /\ pc = "done" /\ calls = 1
     /\ UpstreamFailed(upstream) /\ upstream.message # "")
    => SurfacedText = upstream.message

(***************************************************************************)
(* C17: a handler issues at most one upstream request per provider per     *)
(* incoming request; when the upstream answers with a failure status (404  *)
(* included) it reports the failure without another request for the same   *)
(* operation.                                                              *)
(***************************************************************************)
FailureStatus(a) == a.kind = "json" /\ (a.status < 200 \/ a.status >= 300)

OneRequestPerOperation ==
  (handler \in {"VR", "CB"})
    => /\ calls <= 1
       /\ (pc = "done" /\ calls = 1 /\ FailureStatus(upstream))
            => (resp.status >= 400 \/ ~resp.valid)

(***************************************************************************)
(* C18: for two invocations of the multi-provider link builder interleaved *)
(* at their await points, each invocation's response equals the response   *)
(* it produces when run alone on the same request and upstream answers,    *)
(* and its attempts and links are its own.                                 *)
(***************************************************************************)
\* the answers invocation i has received, in order
Received(i) == SelectSeq(loop[i].answers, LAMBDA a : a.kind # "none")

\* the handler run alone on q from the state st, its calls answered by answers
RECURSIVE MPReplay(_, _, _)
MPReplay(q, st, answers) ==
  IF st.pc = "done" \/ Len(answers) = 0 THEN st
  ELSE MPReplay(q, MPResume(q, st.loop, Head(answers)), Tail(answers))

MPAlone(q, e, answers) == MPReplay(q, MPBegin(q, e), answers)

ResponsesAsIfAlone ==
  handler = "MP2" =>
    \A i \in Invocations :
      pc[i] # "start" =>
        LET alone == MPAlone(req[i], env, Received(i))
        IN /\ pc[i] = alone.pc
           /\ loop[i] = alone.loop
           /\ pc[i] = "done" => resp[i] = alone.resp

\* invocation 1 has answered with two links while invocation 2, whose first
\* provider failed, awaits its second provider and holds no link
LinksWhileOtherAwaits ==
  /\ handler = "MP2"
  /\ pc[1] = "done" /\ Len(resp[1].url.links) = 2
  /\ pc[2] = "await" /\ Len(loop[2].results) = 1 /\ loop[2].links = <<>>

(***************************************************************************)
(* C19: every handler invocation terminates and sends exactly one response *)
(* on every path: at no time has it sent two, it has sent one exactly when *)
(* it has finished, and it finishes.                                       *)
(***************************************************************************)
ExactlyOneResponse ==
  /\ [](resp.sent <= 1 /\ (pc = "done" <=> resp.sent = 1))
  /\ <>(pc = "done")

\* the axios relay answered a network failure with its single response
NetworkFailureAnsweredOnce ==
  /\ handler = "RA" /\ pc = "done" /\ upstream.kind = "netfail"
  /\ resp.sent = 1 /\ resp.status = 500

\* the desired provider has been attempted and the response is sent
DesiredAttempted == handler = "TP" /\ pc = "done" /\ Len(loop.results) >= 1

(***************************************************************************)
(* C20: in the desired-first link builder, once the desired provider has   *)
(* been attempted and the response is sent: each other provider was        *)
(* attempted exactly if the desired attempt failed and fallback is on; if  *)
(* the desired stay passed, the response is the desired provider's labeled *)
(* link and nothing else; if it failed, the response carries the reason of *)
(* that failure.                                                           *)
(***************************************************************************)
OthersAttemptedOnlyOnFallback ==
  DesiredAttempted =>
    LET desiredResult == loop.results[1]
    IN /\ \A k \in 2..Len(loop.ordered) :
            (k <= Len(loop.results)) <=> (~desiredResult.ok /\ req.fallback)
       /\ desiredResult.ok =>
            /\ resp.url.form = "[D] L"
            /\ resp.url.links = <<loop.ordered[1].name, desiredResult.link>>
       /\ ~desiredResult.ok =>
            /\ desiredResult.reason.text # ""
            /\ resp.url.reason = desiredResult.reason

\* the same on requests whose dates are calendar dates
OthersAttemptedOnCalendarDates ==
  (normDate(req.startDate) # BadCal /\ normDate(req.endDate) # BadCal)
    => OthersAttemptedOnlyOnFallback

\* the room-type price handler answered with the price of a plan
Priced ==
  /\ handler = "PH" /\ pc = "done" /\ resp.success /\ ~resp.roomTypeMatched.null

\* the plans of the answer that are candidates and pass window validation
ValidCandidates ==
  {i \in 1..Len(upstream.plans) :
     /\ PHAccepts(upstream.plans[i], req)
     /\ computeWindowTotal(upstream.plans[i], checkin, checkout).ok}

ScoreOf(i) == scoreRoomMatch(upstream.plans[i], req)

AmountOf(i) == computeWindowTotal(upstream.plans[i], checkin, checkout).amount

(***************************************************************************)
(* C21: the plan whose price the room-type price handler returns is a      *)
(* candidate that passes window validation, no such candidate has a higher *)
(* match score, and none of the same score has a lower total amount.       *)
(***************************************************************************)
BestScoreThenLowestPrice ==
  Priced =>
    \E i \in ValidCandidates :
       /\ resp.roomTypeMatched = PHMatched(upstream.plans[i])
       /\ resp.totalPrice = AmountOf(i)
       /\ \A j \in ValidCandidates :
            /\ ScoreOf(j) <= ScoreOf(i)
            /\ ScoreOf(j) = ScoreOf(i) => AmountOf(i) <= AmountOf(j)

\* a cheaper valid plan of a lower score was passed over
CheaperLowerScorePassedOver ==
  /\ Priced
  /\ \E j \in ValidCandidates : AmountOf(j) < resp.totalPrice
  /\ \E i \in ValidCandidates : ScoreOf(i) = 3 /\ AmountOf(i) = resp.totalPrice

\* the request names its room type by ID alone, and the handler has answered
AskedByID ==
  /\ handler = "PH" /\ pc = "done"
  /\ req.roomTypeID # "" /\ req.roomTypeName = <<>>

(***************************************************************************)
(* C22: for a request that names its room type by roomTypeID and gives no  *)
(* room name, a priced response is matched to that roomTypeID, and when no *)
(* plan of that room type is valid for the window the response is an       *)
(* error.                                                                  *)
(***************************************************************************)
RequestedRoomTypePriced ==
  AskedByID =>
    /\ Priced => resp.roomTypeMatched.id = req.roomTypeID
    /\ (\A i \in ValidCandidates : upstream.plans[i].roomTypeID # req.roomTypeID)
         => ~resp.success

\* the sum of the rates of the nights from day d to day last, each night's
\* rate read from the first record of its date
RECURSIVE NightlyRates(_, _, _)
NightlyRates(details, d, last) ==
  IF d > last THEN 0
  ELSE toNum(FindDate(details, d).rate, 0) + NightlyRates(details, d + 1, last)

\* the price of plan i: its roomRate if positive, else the sum over the nights
PriceOf(i) ==
  IF toNum(upstream.plans[i].roomRate, 0) > 0 THEN toNum(upstream.plans[i].roomRate, 0)
  ELSE NightlyRates(upstream.plans[i].details, checkin, checkout - 1)

\* the totalPrice-only handler got as far as validating the candidates
GPValidated ==
  /\ handler = "GP" /\ pc = "done" /\ WellFormedStay
  /\ req.propertyID \in PHKnownProperties
  /\ upstream.kind = "json" /\ ~UpstreamFailed(upstream) /\ upstream.dataIsArray

(***************************************************************************)
(* C23: every response of the totalPrice-only handler is a 200 whose body  *)
(* is totalPrice alone; totalPrice is 0 on every failure path and, when a  *)
(* candidate passes window validation, positive and equal to the price of  *)
(* such a plan: its roomRate if positive, else the sum of the nightly      *)
(* rates over the nights of the stay.                                      *)
(***************************************************************************)
TotalPriceOnly ==
  (handler = "GP" /\ pc = "done") =>
    /\ resp.status = 200 /\ resp.fields = {"totalPrice"} /\ resp.sent = 1
    /\ IF GPValidated /\ ValidCandidates # {}
       THEN /\ resp.totalPrice > 0
            /\ \E i \in ValidCandidates : resp.totalPrice = PriceOf(i)
       ELSE resp.totalPrice = 0

\* a check-availability handler answered a room-types list
ListAnswered ==
  /\ handler \in {"CA", "CS"} /\ pc = "done" /\ calls = 1
  /\ upstream.kind = "json" /\ upstream.httpOk /\ upstream.success
  /\ upstream.dataIsArray

\* some room type of the list has a finite count greater than 0
SomeTypeAvailable ==
  \E i \in 1..Len(upstream.roomTypes) :
     LET rt == upstream.roomTypes[i]
     IN ~rt.isNull /\ rt.availableRooms.t = "num" /\ rt.availableRooms.v > 0

(***************************************************************************)
(* C24: both check-availability handlers answer available:true exactly     *)
(* when some room type of the upstream list has a finite count greater     *)
(* than 0, so the summing variant and the any-positive variant decide      *)
(* alike on every list.                                                    *)
(***************************************************************************)
AvailableIffSomePositive == ListAnswered => (resp.valid <=> SomeTypeAvailable)

\* the same on lists without a null entry
AvailableIffSomePositiveObjects ==
  (ListAnswered /\ ~CSMapThrows(upstream.roomTypes)) => (resp.valid <=> SomeTypeAvailable)

\* the response reports a minimum number of nights
ReportsMinNights ==
  /\ pc = "done" /\ handler \in {"SV", "SM", "RL"}
  /\ resp.fields \cap {"minimumNightsRequiredToStay", "minLos"} # {}

(***************************************************************************)
(* C25: a response that reports a minimum number of nights reports an      *)
(* integer that is at least 1, whatever integers or decimal strings the    *)
(* nightly records carry as minLos (0, negative, missing and null          *)
(* included) and on every early return.                                    *)
(***************************************************************************)
ReportedMinNightsAtLeastOne ==
  ReportsMinNights =>
    resp.minimumNightsRequiredToStay \in Nat \ {0, NaN}

\* the arrival record carries a minLos that is not positive, 1 is reported
NonPositiveMinLosReportedAsOne ==
  /\ ReportsMinNights /\ IsPlanList(upstream) /\ Len(Details) > 0
  /\ checkin \in Days /\ HasDate(Details, checkin)
  /\ FindDate(Details, checkin).minLos \in {Num(0 - 1), Num(0), Str(0 - 3)}
  /\ resp.minimumNightsRequiredToStay = 1

\* computeWindowTotal has been evaluated twice
EvaluatedTwice == handler = "CW" /\ pc = "done"

VerdictByRuleNotGenericError ==
  Judged({"GR"}) =>
    /\ PassesAllRules(Details) =>
         resp.valid /\ resp.minimumNightsRequiredToStay = ComputedMinLos
    /\ ~PassesAllRules(Details) => resp.reason # Reason(VRError)

\* the handler answered valid:true or a booking link
PositiveResult ==
  /\ Judged({"SV", "SP", "TP"})
  /\ resp.valid \/ Len(resp.url.links) > 0

\* every night has a record with a room and a rate, the stay is long enough,
\* arrival and departure are open
StayIsBookable ==
  /\ \A day \in checkin..(checkout - 1) :
       \E i \in RecordsOn(day) :
         /\ toInt(Details[i].roomsAvailable, 0) >= 1
         /\ Details[i].rate.t = "num" /\ Details[i].rate.v > 0
  /\ nights >= ComputedMinLos
  /\ ~ArrivalFlagged
  /\ ~DepartureFlagged

(***************************************************************************)
(* C28: whenever a stay-verdict or link-building handler answers           *)
(* valid:true or a booking link, every night of [checkin, checkout) has a  *)
(* record with roomsAvailable >= 1 and rate > 0, nights reach the          *)
(* effective minLos, the check-in record is not closed to arrival, and     *)
(* neither the check-out record nor the last night's is closed to          *)
(* departure, whatever list of records upstream returned.                  *)
(***************************************************************************)
PositiveResultIsSound == PositiveResult => StayIsBookable

\* the same for one handler and for lists that are not empty, repeat no date
\* and hold no negative count
NoRepeatedDate == \A i, j \in AllRecords : Details[i].date = Details[j].date => i = j
NoNegativeCount == \A i \in AllRecords : toInt(Details[i].roomsAvailable, 0) >= 0
SoundOnPlainLists(h) ==
  (PositiveResult /\ handler = h /\ Len(Details) > 0 /\ NoRepeatedDate /\ NoNegativeCount)
    => StayIsBookable

\* the desired-first link builder has ordered its providers for a request
\* that names a property
OrderedForProperty == handler = "TP" /\ Len(loop.ordered) > 0 /\ req.propertyID # ""

\* the configured providers other than the one tried first, in configured order
OthersAsConfigured ==
  SelectSeq(loadProvidersFromEnv(env), LAMBDA p : p.slot # loop.ordered[1].slot)

(***************************************************************************)
(* C29: in the desired-first link builder the provider tried first, and    *)
(* named in the response as the desired property, is the configured        *)
(* provider whose propertyID is the requested one, so that a requested     *)
(* propertyID never goes upstream with the API key, nor is answered with   *)
(* the booking link, of a provider configured for another property; and    *)
(* orderProviders returns the configured providers, each once, the         *)
(* non-selected ones in their configured order.                            *)
(***************************************************************************)
DesiredIsRequestedProperty ==
  OrderedForProperty =>
    /\ loop.ordered[1].propertyID = req.propertyID
    /\ Tail(loop.ordered) = OthersAsConfigured

\* the ordering alone: the configured providers, each once, the others in
\* their configured order
OrderKeepsConfigured ==
  (handler = "TP" /\ Len(loop.ordered) > 0) =>
    /\ Len(loop.ordered) = Len(loadProvidersFromEnv(env))
    /\ Tail(loop.ordered) = OthersAsConfigured

\* the same when a provider with an API key is configured for the property
DesiredIsRequestedWhenConfigured ==
  (OrderedForProperty
     /\ \E k \in 1..3 : env.apiKey[k] /\ env.propertyID[k] = req.propertyID)
    => loop.ordered[1].propertyID = req.propertyID

====
